---------------------------- MODULE Spec2Model ----------------------------
(***************************************************************************)
(* Calibration-propagation engine of RTD_Calibration.                      *)
(*                                                                         *)
(* The repository holds three overlapping implementations of the engine:   *)
(*   - the TreeEntry pipeline (utils/tree_utils.py, tree_entry.py,         *)
(*     utils/calibration_utils.py, utils/math_utils.py),                   *)
(*   - the legacy Tree class (tree.py),                                    *)
(*   - the CalibrationNetwork class (calibration_network.py).              *)
(* Each is modelled from its own source.                                   *)
(*                                                                         *)
(* Numbers.  The code computes with IEEE doubles; the model computes with  *)
(* exact rationals over arbitrary-size naturals, so that the guard value   *)
(* 1e-10 of the combiners is the number 1/10^10 and not a stand-in.        *)
(* An error (a standard deviation, >= 0) is carried as its square, so      *)
(* that sqrt(sum(e^2)) and 1/sqrt(sum(w)) stay rational: two errors are    *)
(* equal exactly when their squares are.                                   *)
(***************************************************************************)
EXTENDS Integers, Sequences, FiniteSets, TLC

\* a call of an operation: its name, its arguments and what it returned.
\* Two calls are compared by the name first.
Call(op, args, value) == [op |-> op, args |-> args, value |-> value]

-----------------------------------------------------------------------------
(* Arbitrary-size naturals: little-endian sequences of limbs in base B,    *)
(* without leading zero limbs; zero is the empty sequence.  The carries    *)
(* are propagated by halving the sequence, which keeps the evaluation      *)
(* shallow.                                                                *)

B == 100 * 100

\* An operator that uses an argument more than once binds its value first,
\* as the one element of {f(v) : v \in {argument}}: the argument is then
\* evaluated once.

BTrim(a) ==
    CHOOSE r \in {IF \A i \in 1..Len(s) : s[i] = 0 THEN <<>>
                  ELSE SubSeq(s, 1, CHOOSE i \in 1..Len(s) :
                                       s[i] # 0 /\ \A j \in (i + 1)..Len(s) : s[j] = 0) :
                  s \in {a}} : TRUE

BPad(a, n) == a \o [i \in 1..(n - Len(a)) |-> 0]
BMax(m, n) == IF m < n THEN n ELSE m

\* a + b + c on two sequences of the same length: the limbs s and the carry c
RECURSIVE BAddSeg(_, _, _)
BAddSeg(a, b, c) ==
    IF Len(a) = 1
    THEN [s |-> <<(a[1] + b[1] + c) % B>>, c |-> (a[1] + b[1] + c) \div B]
    ELSE LET h == Len(a) \div 2
             lo == BAddSeg(SubSeq(a, 1, h), SubSeq(b, 1, h), c)
             hi == BAddSeg(SubSeq(a, h + 1, Len(a)), SubSeq(b, h + 1, Len(b)), lo.c)
         IN  [s |-> lo.s \o hi.s, c |-> hi.c]

BAdd(a, b) ==
    IF a = <<>> /\ b = <<>> THEN <<>>
    ELSE CHOOSE sum \in {IF r.c = 0 THEN r.s ELSE Append(r.s, r.c) :
                            r \in {BAddSeg(BPad(a, BMax(Len(a), Len(b))),
                                           BPad(b, BMax(Len(a), Len(b))), 0)}} : TRUE

\* a - b - c on two sequences of the same length: the limbs s and the borrow c
RECURSIVE BSubSeg(_, _, _)
BSubSeg(a, b, c) ==
    IF Len(a) = 1
    THEN IF a[1] - b[1] - c < 0 THEN [s |-> <<a[1] - b[1] - c + B>>, c |-> 1]
                                ELSE [s |-> <<a[1] - b[1] - c>>, c |-> 0]
    ELSE LET h == Len(a) \div 2
             lo == BSubSeg(SubSeq(a, 1, h), SubSeq(b, 1, h), c)
             hi == BSubSeg(SubSeq(a, h + 1, Len(a)), SubSeq(b, h + 1, Len(b)), lo.c)
         IN  [s |-> lo.s \o hi.s, c |-> hi.c]

\* a - b for a >= b
BSub(a, b) == IF a = <<>> THEN <<>> ELSE BTrim(BSubSeg(a, BPad(b, Len(a)), 0).s)

\* -1, 0, 1 as a < b, a = b, a > b
BCmp(a, b) ==
    IF Len(a) < Len(b) THEN -1
    ELSE IF Len(a) > Len(b) THEN 1
    ELSE IF a = b THEN 0
    ELSE LET i == CHOOSE i \in 1..Len(a) :
                     a[i] # b[i] /\ \A j \in (i + 1)..Len(a) : a[j] = b[j]
         IN  IF a[i] < b[i] THEN -1 ELSE 1

\* a * k + c for a machine integer 0 <= k < B: the limbs s and the carry c
RECURSIVE BMulSeg(_, _, _)
BMulSeg(a, k, c) ==
    IF Len(a) = 1
    THEN [s |-> <<(a[1] * k + c) % B>>, c |-> (a[1] * k + c) \div B]
    ELSE LET h == Len(a) \div 2
             lo == BMulSeg(SubSeq(a, 1, h), k, c)
             hi == BMulSeg(SubSeq(a, h + 1, Len(a)), k, lo.c)
         IN  [s |-> lo.s \o hi.s, c |-> hi.c]

BMulS(a, k) ==
    IF a = <<>> THEN <<>>
    ELSE CHOOSE product \in {BTrim(Append(r.s, r.c)) : r \in {BMulSeg(a, k, 0)}} : TRUE

\* a * B^h
BShift(a, h) == IF a = <<>> THEN a ELSE [i \in 1..h |-> 0] \o a

\* the product, by halving b
RECURSIVE BMul(_, _)
BMul(a, b) ==
    IF a = <<>> \/ b = <<>> THEN <<>>
    ELSE IF Len(b) = 1 THEN BMulS(a, b[1])
    ELSE LET h == Len(b) \div 2
             lo == BMul(a, BTrim(SubSeq(b, 1, h)))
             hi == BMul(a, SubSeq(b, h + 1, Len(b)))
         IN  BAdd(lo, BShift(hi, h))

RECURSIVE BigOf(_)
BigOf(n) == IF n = 0 THEN <<>> ELSE <<n % B>> \o BigOf(n \div B)

\* (r * B^Len(a) + a) div k and mod k for a machine integer 0 < k < B and
\* r < k: the limbs q of the quotient and the remainder r
RECURSIVE BDivSeg(_, _, _)
BDivSeg(a, k, r) ==
    IF Len(a) = 1
    THEN [q |-> <<(r * B + a[1]) \div k>>, r |-> (r * B + a[1]) % k]
    ELSE CHOOSE qr \in UNION {{[q |-> lo.q \o hi.q, r |-> lo.r] :
                                 lo \in {BDivSeg(SubSeq(a, 1, Len(a) \div 2), k, hi.r)}} :
                             hi \in {BDivSeg(SubSeq(a, Len(a) \div 2 + 1, Len(a)), k, r)}} :
             TRUE

BModS(a, k) == IF a = <<>> THEN 0 ELSE BDivSeg(a, k, 0).r
BDivS(a, k) == IF a = <<>> THEN <<>> ELSE BTrim(BDivSeg(a, k, 0).q)

-----------------------------------------------------------------------------
(* Signed integers [neg, mag] and rationals [n, d] with d > 0.  A rational *)
(* is kept small by cancelling the common factors B, 2, 3, 5, 7, 11 and 13 *)
(* of n and d; it need not be in lowest terms, and equality of rationals   *)
(* is QEq, by cross-multiplication.                                        *)

\* powers of the primes 2, 5, 3, 7, 11 and 13, the larger powers first
SmallFactors == <<4096, 64, 2, 3125, 125, 5, 729, 27, 3, 2401, 49, 7, 121, 11, 169, 13>>

\* n and d without their common low zero limbs
CancelLimbs(n, d) ==
    LET k == CHOOSE k \in 0..Len(n) :
                 /\ k <= Len(d)
                 /\ \A i \in 1..k : n[i] = 0 /\ d[i] = 0
                 /\ (k < Len(n) /\ k < Len(d)) => (n[k + 1] # 0 \/ d[k + 1] # 0)
                 /\ k < Len(n) /\ k < Len(d)
    IN  IF n = <<>> \/ d = <<>> THEN <<n, d>>
        ELSE <<SubSeq(n, k + 1, Len(n)), SubSeq(d, k + 1, Len(d))>>

\* n and d without their common factors SmallFactors[i], ..., SmallFactors[j],
\* each cancelled as often as it divides both
RECURSIVE CancelFactors(_, _, _, _)
CancelFactors(n, d, i, j) ==
    IF i < j
    THEN CHOOSE nd \in {CancelFactors(c[1], c[2], (i + j) \div 2 + 1, j) :
                           c \in {CancelFactors(n, d, i, (i + j) \div 2)}} : TRUE
    ELSE IF BModS(n, SmallFactors[i]) = 0 /\ BModS(d, SmallFactors[i]) = 0
    THEN CHOOSE nd \in {CancelFactors(n1, d1, i, i) :
                           n1 \in {BDivS(n, SmallFactors[i])},
                           d1 \in {BDivS(d, SmallFactors[i])}} : TRUE
    ELSE <<n, d>>

QRed(x) ==
    CHOOSE q \in {IF v.n.mag = <<>> THEN [n |-> v.n, d |-> <<1>>]
                  ELSE CHOOSE r \in {[n |-> [neg |-> v.n.neg, mag |-> c[1]], d |-> c[2]] :
                                        c \in {CancelFactors(CancelLimbs(v.n.mag, v.d)[1],
                                                             CancelLimbs(v.n.mag, v.d)[2],
                                                             1, Len(SmallFactors))}} : TRUE :
                  v \in {x}} : TRUE

ZInt(neg, mag) == CHOOSE z \in {[neg |-> neg /\ m # <<>>, mag |-> m] : m \in {mag}} : TRUE

ZAdd(x, y) ==
    CHOOSE z \in {IF a.neg = b.neg THEN ZInt(a.neg, BAdd(a.mag, b.mag))
                  ELSE IF BCmp(a.mag, b.mag) >= 0 THEN ZInt(a.neg, BSub(a.mag, b.mag))
                  ELSE ZInt(b.neg, BSub(b.mag, a.mag)) :
                  a \in {x}, b \in {y}} : TRUE

ZNeg(x) == CHOOSE z \in {ZInt(~a.neg, a.mag) : a \in {x}} : TRUE
ZMul(x, y) == ZInt(x.neg # y.neg, BMul(x.mag, y.mag))
ZMulB(x, b) == ZInt(x.neg, BMul(x.mag, b))

\* the rational p/q of two machine integers, q > 0
Q(p, q) == QRed([n |-> ZInt(p < 0, BigOf(IF p < 0 THEN -p ELSE p)), d |-> BigOf(q)])

QZero == [n |-> [neg |-> FALSE, mag |-> <<>>], d |-> <<1>>]
QOne == [n |-> [neg |-> FALSE, mag |-> <<1>>], d |-> <<1>>]

QAdd(x, y) ==
    CHOOSE q \in {QRed([n |-> ZAdd(ZMulB(a.n, b.d), ZMulB(b.n, a.d)), d |-> BMul(a.d, b.d)]) :
                  a \in {x}, b \in {y}} : TRUE
QNeg(x) == CHOOSE q \in {[n |-> ZNeg(a.n), d |-> a.d] : a \in {x}} : TRUE
QSub(x, y) == QAdd(x, QNeg(y))
QMul(x, y) ==
    CHOOSE q \in {QRed([n |-> ZMul(a.n, b.n), d |-> BMul(a.d, b.d)]) :
                  a \in {x}, b \in {y}} : TRUE
\* 1/x for x # 0
QInv(x) == CHOOSE q \in {[n |-> ZInt(a.n.neg, a.d), d |-> a.n.mag] : a \in {x}} : TRUE
QDiv(x, y) == QMul(x, QInv(y))
QIsZero(x) == x.n.mag = <<>>
QEq(x, y) == \E a \in {x}, b \in {y} : ZMulB(a.n, b.d) = ZMulB(b.n, a.d)
QLess(x, y) ==
    \E a \in {x}, b \in {y} : ZAdd(ZMulB(a.n, b.d), ZNeg(ZMulB(b.n, a.d))).neg

RECURSIVE QSum(_)
QSum(s) ==
    CHOOSE q \in {IF v = <<>> THEN QZero ELSE QAdd(Head(v), QSum(Tail(v))) : v \in {s}} : TRUE


-----------------------------------------------------------------------------
(* IEEE values of the CalibrationNetwork combiner, whose divisions are     *)
(* numpy float64 divisions: x/0 is an infinity or NaN, not an exception.   *)

Fin(q) == [k |-> "fin", v |-> q]
PInf == [k |-> "pinf", v |-> QZero]
NInf == [k |-> "ninf", v |-> QZero]
NaN == [k |-> "nan", v |-> QZero]

IsFinite(x) == x.k = "fin"
ENeg(x) == IF x.k = "pinf" THEN NInf ELSE IF x.k = "ninf" THEN PInf ELSE x

EAdd(x, y) ==
    IF x.k = "nan" \/ y.k = "nan" THEN NaN
    ELSE IF x.k = "fin" /\ y.k = "fin" THEN Fin(QAdd(x.v, y.v))
    ELSE IF x.k = "fin" THEN y
    ELSE IF y.k = "fin" THEN x
    ELSE IF x.k = y.k THEN x ELSE NaN

EMul(x, y) ==
    IF x.k = "nan" \/ y.k = "nan" THEN NaN
    ELSE IF x.k = "fin" /\ y.k = "fin" THEN Fin(QMul(x.v, y.v))
    ELSE IF (x.k = "fin" /\ QIsZero(x.v)) \/ (y.k = "fin" /\ QIsZero(y.v)) THEN NaN
    ELSE LET xneg == IF x.k = "fin" THEN x.v.n.neg ELSE x.k = "ninf"
             yneg == IF y.k = "fin" THEN y.v.n.neg ELSE y.k = "ninf"
         IN  IF xneg # yneg THEN NInf ELSE PInf

EDiv(x, y) ==
    IF x.k = "nan" \/ y.k = "nan" THEN NaN
    ELSE IF y.k = "fin"
         THEN IF QIsZero(y.v)
              THEN IF x.k = "fin"
                   THEN IF QIsZero(x.v) THEN NaN
                        ELSE IF x.v.n.neg THEN NInf ELSE PInf
                   ELSE x
              ELSE IF x.k = "fin" THEN Fin(QDiv(x.v, y.v))
                   ELSE IF y.v.n.neg THEN ENeg(x) ELSE x
         ELSE IF x.k = "fin" THEN Fin(QZero) ELSE NaN

RECURSIVE ESum(_)
ESum(s) == IF s = <<>> THEN Fin(QZero) ELSE EAdd(Head(s), ESum(Tail(s)))

-----------------------------------------------------------------------------
(* The three combiners.  A path is [offset, error2]: its total offset and  *)
(* the square of its total error.                                          *)

\* Python's None
None == [k |-> "None"]

\* (total_offset, total_error, path_details)
Path(o, e2, d) == [offset |-> o, error2 |-> e2, path_details |-> d]

\* 1e-10, the value substituted for a zero error (calibration_utils.py:187)
EPS_ERROR == [n |-> [neg |-> FALSE, mag |-> <<1>>], d |-> <<0, 0, 100>>]
\* 1e-10, the value added to every squared error (tree.py:1208)
EPS_SQUARE == [n |-> [neg |-> FALSE, mag |-> <<1>>], d |-> <<0, 0, 100>>]

\* errors_safe ** 2
ErrorsSafe2(e2) == IF QIsZero(e2) THEN QMul(EPS_ERROR, EPS_ERROR) ELSE e2

WeightedMean(offsets, weights) ==
    QDiv(QSum([i \in 1..Len(offsets) |-> QMul(weights[i], offsets[i])]), QSum(weights))

weighted_average_paths(paths) ==
    IF paths = <<>> THEN [offset |-> None, error2 |-> None]
    ELSE IF Len(paths) = 1 THEN [offset |-> paths[1].offset, error2 |-> paths[1].error2]
    ELSE LET offsets == [i \in 1..Len(paths) |-> paths[i].offset]
             weights == [i \in 1..Len(paths) |-> QInv(ErrorsSafe2(paths[i].error2))]
         IN  [offset |-> WeightedMean(offsets, weights),
              error2 |-> QInv(QSum(weights))]

\* Tree.calculate_all_offsets_multi_path, "3. Media ponderada por 1/error^2"
multi_path_weighted(all_paths) ==
    LET raw == [i \in 1..Len(all_paths) |-> QInv(QAdd(all_paths[i].error2, EPS_SQUARE))]
        total == QSum(raw)
        weights == [i \in 1..Len(all_paths) |-> QDiv(raw[i], total)]
    IN  [offset |-> QSum([i \in 1..Len(all_paths) |-> QMul(all_paths[i].offset, weights[i])]),
         error2 |-> QSum([i \in 1..Len(all_paths) |->
                            QMul(all_paths[i].error2, QMul(weights[i], weights[i]))])]

\* CalibrationNetwork.compute_weighted_offset_all_paths, step 5
compute_weighted_offset(all_paths) ==
    LET weights == [i \in 1..Len(all_paths) |->
                      EDiv(Fin(QOne), Fin(all_paths[i].error2))]
        weighted_offsets == [i \in 1..Len(all_paths) |->
                      EMul(Fin(all_paths[i].offset), weights[i])]
        sum_weights == ESum(weights)
        sum_weighted_offsets == ESum(weighted_offsets)
    IN  [offset |-> EDiv(sum_weighted_offsets, sum_weights),
         error2 |-> EDiv(Fin(QOne), sum_weights)]

-----------------------------------------------------------------------------
(* Python lists are sequences, Python dicts are functions.                 *)

Range(s) == {s[i] : i \in 1..Len(s)}
InSeq(x, s) == \E i \in 1..Len(s) : s[i] = x
\* dict.get(key, default)
DictGet(d, key, default) == IF key \in DOMAIN d THEN d[key] ELSE default

\* math_utils.propagate_error, on squared errors: the square of its result
propagate_error(errors) ==
    IF errors = <<>> THEN QZero
    ELSE QSum(SelectSeq(errors, LAMBDA e : e # None))

-----------------------------------------------------------------------------
(* TreeEntry (tree_entry.py).  A CalibSet is [set_number, reference_id,    *)
(* mean_offsets, std_offsets]; std_offsets holds the squares of the        *)
(* standard deviations.  parent_entries and children_entries hold the set  *)
(* numbers of the entries they refer to.                                   *)

TreeEntry(set_number, calibset, round, sensors, raised_sensors, discarded_sensors) ==
    [set_number |-> set_number, calibset |-> calibset, round |-> round,
     sensors |-> sensors, raised_sensors |-> raised_sensors,
     discarded_sensors |-> discarded_sensors, parent_entries |-> <<>>,
     children_entries |-> <<>>, offsets_to_raised |-> <<>>]

get_offset_to_raised(entry, sensor_id, raised_id) ==
    IF raised_id \notin DOMAIN entry.offsets_to_raised THEN None
    ELSE DictGet(entry.offsets_to_raised[raised_id], sensor_id, None)

\* variant: the raised list is read where the discard list is meant
is_sensor_discarded_raised(entry, sensor_id) == InSeq(sensor_id, entry.raised_sensors)
is_sensor_discarded(entry, sensor_id) == InSeq(sensor_id, entry.discarded_sensors)

get_raised_for_sensor(entry, sensor_id) ==
    IF InSeq(sensor_id, entry.raised_sensors)
    THEN SelectSeq(entry.raised_sensors, LAMBDA r : r # sensor_id)
    ELSE entry.raised_sensors

-----------------------------------------------------------------------------
(* utils/tree_utils.py                                                     *)

\* offset and squared error of a sensor with respect to the internal
\* reference of its CalibSet, None when the CalibSet has no offset for it
OffsetToInternalReference(calibset, id) ==
    IF id = calibset.reference_id THEN [offset |-> QZero, error2 |-> QZero]
    ELSE IF id \in DOMAIN calibset.mean_offsets
         THEN [offset |-> calibset.mean_offsets[id],
               error2 |-> DictGet(calibset.std_offsets, id, QZero)]
         ELSE None

calculate_offsets_to_raised(tree_entry, calibset) ==
    [raised_id \in Range(tree_entry.raised_sensors) |->
        LET raised == OffsetToInternalReference(calibset, raised_id)
            with == {sensor_id \in Range(tree_entry.sensors) :
                        /\ ~InSeq(sensor_id, tree_entry.discarded_sensors)
                        /\ sensor_id # raised_id
                        /\ OffsetToInternalReference(calibset, sensor_id) # None}
        IN  IF raised = None THEN <<>>
            ELSE [sensor_id \in with |->
                    LET sensor == OffsetToInternalReference(calibset, sensor_id)
                    IN  [offset |-> QSub(sensor.offset, raised.offset),
                         error2 |-> propagate_error(<<sensor.error2, raised.error2>>)]]]

-----------------------------------------------------------------------------
(* The Tree container of the TreeEntry pipeline: the entries in insertion  *)
(* order and the root entry (None until set_root).                         *)

EmptyTree == [entries |-> <<>>, root |-> None]
add_entry(tree, entry) == [tree EXCEPT !.entries = Append(@, entry)]
set_root(tree, entry) == [tree EXCEPT !.root = entry]
get_root(tree) == tree.root
get_entries_by_round(tree, round) == SelectSeq(tree.entries, LAMBDA e : e.round = round)
get_entry(tree, set_number) ==
    IF \E i \in 1..Len(tree.entries) : tree.entries[i].set_number = set_number
    THEN tree.entries[CHOOSE i \in 1..Len(tree.entries) :
                          tree.entries[i].set_number = set_number]
    ELSE None

RECURSIVE Concat(_)
Concat(ss) == IF ss = <<>> THEN <<>> ELSE Head(ss) \o Concat(Tail(ss))

(* utils/tree_utils.py, building the tree                                  *)

RECURSIVE SortedSeqOf(_)
SortedSeqOf(S) ==
    IF S = {} THEN <<>>
    ELSE LET m == CHOOSE x \in S : \A y \in S : x <= y
         IN  <<m>> \o SortedSeqOf(S \ {m})

\* variant: every set of a lower round counts as parent
find_parent_sets_lower(target_set_id, config) ==
    LET target_config == DictGet(config, target_set_id, <<>>)
        target_sensors == Range(DictGet(target_config, "sensors", <<>>))
        target_round == DictGet(target_config, "round", 0)
        parents == {set_id \in DOMAIN config :
                       /\ set_id # target_set_id
                       /\ DictGet(config[set_id], "round", 0) < target_round
                       /\ Range(DictGet(config[set_id], "raised", <<>>))
                              \cap target_sensors # {}}
    IN  IF target_round - 1 < 1 THEN <<>> ELSE SortedSeqOf(parents)
\* config is the dict config['sensors']['sets']: set id -> set_config
find_parent_sets(target_set_id, config) ==
    LET target_config == DictGet(config, target_set_id, <<>>)
        target_sensors == Range(DictGet(target_config, "sensors", <<>>))
        target_round == DictGet(target_config, "round", 0)
        parent_round == target_round - 1
        parents == {set_id \in DOMAIN config :
                       /\ set_id # target_set_id
                       /\ DictGet(config[set_id], "round", 0) = parent_round
                       /\ Range(DictGet(config[set_id], "raised", <<>>))
                              \cap target_sensors # {}}
    IN  IF parent_round < 1 THEN <<>> ELSE SortedSeqOf(parents)

HasEntry(tree, set_number) == get_entry(tree, set_number) # None

build_tree_hierarchy(tree, config) ==
    LET ids == [i \in 1..Len(tree.entries) |-> tree.entries[i].set_number]
        ChildIds(set_number) ==
            SelectSeq(find_parent_sets(set_number, config),
                      LAMBDA child_id : HasEntry(tree, child_id))
    IN  [tree EXCEPT !.entries =
            [i \in 1..Len(tree.entries) |->
                [tree.entries[i] EXCEPT
                    !.children_entries = ChildIds(ids[i]),
                    !.parent_entries =
                        SelectSeq(ids, LAMBDA parent_id :
                                          InSeq(ids[i], ChildIds(parent_id)))]]]

\* max(r3_entries, key=lambda e: e.set_number)
MaxBySetNumber(entries) ==
    entries[CHOOSE i \in 1..Len(entries) :
               /\ \A j \in 1..Len(entries) : entries[j].set_number <= entries[i].set_number
               /\ \A j \in 1..(i - 1) : entries[j].set_number < entries[i].set_number]

RECURSIVE AddEntries(_, _, _)
AddEntries(tree, calibsets, config) ==
    IF calibsets = <<>> THEN tree
    ELSE LET calibset == Head(calibsets)
             set_config == DictGet(config, calibset.set_number, <<>>)
             raised == DictGet(set_config, "raised", <<>>)
             entry == TreeEntry(calibset.set_number, calibset,
                                DictGet(set_config, "round", 1),
                                DictGet(set_config, "sensors", <<>>),
                                raised,
                                DictGet(set_config, "discarded", <<>>))
             filled == IF raised # <<>>
                       THEN [entry EXCEPT !.offsets_to_raised =
                                            calculate_offsets_to_raised(entry, calibset)]
                       ELSE entry
         IN  AddEntries(add_entry(tree, filled), Tail(calibsets), config)

\* "2. Determinar root": root_set_id is <<>> for None, <<id>> for the set id
determine_root(tree, root_set_id, r3_entries) ==
    IF root_set_id = <<>>
    THEN IF r3_entries # <<>> THEN set_root(tree, MaxBySetNumber(r3_entries))
         ELSE tree
    ELSE IF get_entry(tree, root_set_id[1]) # None
         THEN set_root(tree, get_entry(tree, root_set_id[1]))
         ELSE tree

\* the tree once its entries are linked: the root is chosen
rooted(tree, root_set_id) ==
    determine_root(tree, root_set_id, get_entries_by_round(tree, 3))

create_tree_from_calibsets(calibsets, config, root_set_id) ==
    rooted(build_tree_hierarchy(AddEntries(EmptyTree, calibsets, config), config),
           root_set_id)

-----------------------------------------------------------------------------
(* utils/calibration_utils.py                                              *)

\* the innermost loop body: the hop raised_r2 -> reference inside entry_r3
PathsThroughR3(start_entry, raised_r1, step1, entry_r2, raised_r2, step2, entry_r3) ==
    IF ~InSeq(raised_r2, entry_r3.sensors) THEN <<>>
    ELSE LET reference_id == entry_r3.calibset.reference_id
             is_reference == raised_r2 = reference_id
             has_offset == raised_r2 \in DOMAIN entry_r3.calibset.mean_offsets
             offset_3 == IF is_reference THEN QZero
                         ELSE entry_r3.calibset.mean_offsets[raised_r2]
             error_3 == IF is_reference THEN QZero
                        ELSE DictGet(entry_r3.calibset.std_offsets, raised_r2, QZero)
         IN  IF ~is_reference /\ ~has_offset THEN <<>>
             ELSE << Path(QAdd(QAdd(step1.offset, step2.offset), offset_3),
                          propagate_error(<<step1.error2, step2.error2, error_3>>),
                          << <<start_entry.set_number, raised_r1>>,
                             <<entry_r2.set_number, raised_r2>>,
                             <<entry_r3.set_number, reference_id>> >>) >>

\* the loop over the raised sensors of one round-2 entry
PathsThroughR2(start_entry, raised_r1, step1, entry_r2, tree) ==
    IF ~InSeq(raised_r1, entry_r2.sensors) THEN <<>>
    ELSE LET available_raised_r2 == get_raised_for_sensor(entry_r2, raised_r1)
             r3_entries == get_entries_by_round(tree, 3)
         IN  Concat([j \in 1..Len(available_raised_r2) |->
                LET raised_r2 == available_raised_r2[j]
                    step2 == get_offset_to_raised(entry_r2, raised_r1, raised_r2)
                IN  IF step2 = None THEN <<>>
                    ELSE Concat([k \in 1..Len(r3_entries) |->
                            PathsThroughR3(start_entry, raised_r1, step1, entry_r2,
                                           raised_r2, step2, r3_entries[k])])])

find_all_paths_to_reference(sensor_id, start_entry, tree) ==
    LET root == get_root(tree)
        available_raised == get_raised_for_sensor(start_entry, sensor_id)
        r2_entries == get_entries_by_round(tree, 2)
    IN  IF root = None THEN <<>>
        ELSE IF is_sensor_discarded(start_entry, sensor_id) THEN <<>>
        ELSE Concat([i \in 1..Len(available_raised) |->
                LET raised_r1 == available_raised[i]
                    step1 == get_offset_to_raised(start_entry, sensor_id, raised_r1)
                IN  IF step1 = None THEN <<>>
                    ELSE Concat([j \in 1..Len(r2_entries) |->
                            PathsThroughR2(start_entry, raised_r1, step1,
                                           r2_entries[j], tree)])])

\* one row of the result table; Error2_K is the square of Error_K
ResultRow(sensor, set_number, round, constant, error2, n_paths, status) ==
    [Sensor |-> sensor, Set |-> set_number, Round |-> round,
     Constante_Calibracion_K |-> constant, Error2_K |-> error2,
     N_Paths |-> n_paths, Status |-> status]

\* variant: the rows are left in the order they were appended
RowBeforeAppended(a, b) == FALSE
\* df.sort_values(['Set', 'Sensor'])
RowBefore(a, b) == a.Set < b.Set \/ (a.Set = b.Set /\ a.Sensor < b.Sensor)

\* variant: a computed row counts the combined result, not the paths
RowsOfPathsCounted(entry, sensor_id, paths, combined) ==
    IF paths = <<>>
    THEN << ResultRow(sensor_id, entry.set_number, entry.round,
                      NaN, NaN, 0, "Sin conexion") >>
    ELSE << ResultRow(sensor_id, entry.set_number, entry.round,
                      combined.offset, combined.error2, 1, "Calculado") >>
\* the rows calibrate_tree appends for a sensor with its paths and the
\* result of weighted_average_paths
RowsOfPaths(entry, sensor_id, paths, combined) ==
    IF paths = <<>>
    THEN << ResultRow(sensor_id, entry.set_number, entry.round,
                      NaN, NaN, 0, "Sin conexion") >>
    ELSE IF combined.offset # None
         THEN << ResultRow(sensor_id, entry.set_number, entry.round,
                           combined.offset, combined.error2, Len(paths), "Calculado") >>
         ELSE <<>>

CombinedRows(entry, sensor_id, paths) ==
    RowsOfPaths(entry, sensor_id, paths, weighted_average_paths(paths))

\* the rows calibrate_tree appends for one sensor of a round-1 entry
RowsOfSensor(entry, sensor_id, tree) ==
    IF is_sensor_discarded(entry, sensor_id)
    THEN << ResultRow(sensor_id, entry.set_number, entry.round, NaN, NaN, 0, "Descartado") >>
    ELSE CombinedRows(entry, sensor_id,
                      find_all_paths_to_reference(sensor_id, entry, tree))

\* variant: the reference is given the row of a sensor without paths
ReferenceRowComputed(reference_sensor_id, root) ==
    ResultRow(reference_sensor_id, root.set_number, root.round, NaN, NaN, 0, "Sin conexion")
\* the row of the absolute reference ("Agregar referencia absoluta")
ReferenceRow(reference_sensor_id, root) ==
    ResultRow(reference_sensor_id, root.set_number, root.round, QZero, QZero, 0, "Referencia")

\* calibrate_tree(tree, reference_sensor_id=None): the DataFrame as the
\* sequence of its rows; the empty sequence is the empty DataFrame
calibrate_tree(tree) ==
    LET root == get_root(tree)
        reference_sensor_id == root.calibset.reference_id
        r1_entries == SortSeq(get_entries_by_round(tree, 1),
                              LAMBDA a, b : a.set_number < b.set_number)
        results ==
            Concat([i \in 1..Len(r1_entries) |->
                Concat([j \in 1..Len(r1_entries[i].sensors) |->
                    RowsOfSensor(r1_entries[i], r1_entries[i].sensors[j], tree)])])
            \o << ReferenceRow(reference_sensor_id, root) >>
    IN  IF root = None THEN <<>> ELSE SortSeq(results, RowBefore)

-----------------------------------------------------------------------------
(* The legacy Tree class (tree.py).  self.sets maps a set id to its Set    *)
(* object, of which the engine reads the two pairwise matrices             *)
(* calibration_constants and calibration_errors: functions from the pairs  *)
(* <<sensor_from, sensor_to>> of the sensors in their index to a number or *)
(* NaN (calibration_errors holds squares).  A legacy tree is                *)
(* [sets, sets_by_round]; the configuration is the variable config.        *)

\* pd.isna
IsNa(x) == x = NaN \/ x = None

\* (None, None)
NonePair == [offset |-> None, error2 |-> None]

\* the first element of a list that is in the set good, as <<element>>, or <<>>
First(s, good) ==
    IF \E i \in 1..Len(s) : s[i] \in good
    THEN << s[CHOOSE i \in 1..Len(s) : s[i] \in good /\ \A j \in 1..(i - 1) : s[j] \notin good] >>
    ELSE <<>>

\* Tree.__init__ and Tree._classify_sets_by_round
LegacyTree(sets, cfg) ==
    [sets |-> sets,
     sets_by_round |->
        [round_num \in {1, 2, 3} |->
            SortedSeqOf({set_id \in DOMAIN sets :
                            DictGet(DictGet(cfg, set_id, <<>>), "round", 1) = round_num})]]

\* Tree._find_parent_sets
legacy_find_parent_sets(target_set_id, cfg) ==
    LET target_config == DictGet(cfg, target_set_id, <<>>)
        target_sensors == Range(DictGet(target_config, "sensors", <<>>))
        parent_round == DictGet(target_config, "round", 0) - 1
        parents == {set_id \in DOMAIN cfg :
                       /\ set_id # target_set_id
                       /\ DictGet(cfg[set_id], "round", 0) = parent_round
                       /\ Range(DictGet(cfg[set_id], "raised", <<>>)) \cap target_sensors # {}}
    IN  IF parent_round < 1 THEN <<>> ELSE SortedSeqOf(parents)

\* Tree.get_r1_sets_for_r3_set
get_r1_sets_for_r3_set(r3_set_id, cfg) ==
    LET r2_sets == legacy_find_parent_sets(r3_set_id, cfg)
    IN  SortedSeqOf(UNION {Range(legacy_find_parent_sets(r2_sets[i], cfg)) :
                              i \in 1..Len(r2_sets)})

\* Tree._determine_r1_sets with r1_sets_range = None
determine_r1_sets(reference_set, cfg) == get_r1_sets_for_r3_set(reference_set, cfg)

\* Tree._get_reference_info: the reference sensor, None without sensors
get_reference_info(reference_set, cfg) ==
    LET ref_config == DictGet(cfg, reference_set, <<>>)
        ref_sensors == DictGet(ref_config, "sensors", <<>>)
        excluded == Range(DictGet(ref_config, "reference", <<>>))
                    \cup Range(DictGet(ref_config, "raised", <<>>))
                    \cup Range(DictGet(ref_config, "discarded", <<>>))
        normal == First(ref_sensors, Range(ref_sensors) \ excluded)
    IN  IF ref_sensors = <<>> THEN <<>>
        ELSE IF normal # <<>> THEN normal ELSE <<ref_sensors[1]>>

\* Tree._get_reference_set
get_reference_set(legacy) ==
    LET top == legacy.sets_by_round[3]
        sets_in_max_round == IF top = <<>> THEN legacy.sets_by_round[2] ELSE top
    IN  sets_in_max_round[Len(sets_in_max_round)]

\* Tree.get_offset_within_set
get_offset_within_set(legacy, set_id, sensor_from, sensor_to) ==
    IF set_id \notin DOMAIN legacy.sets THEN NonePair
    ELSE LET constants == legacy.sets[set_id].calibration_constants
             errors == legacy.sets[set_id].calibration_errors
         IN  IF constants = None \/ errors = None THEN NonePair
             ELSE IF /\ <<sensor_from, sensor_to>> \in DOMAIN constants
                     /\ <<sensor_from, sensor_to>> \in DOMAIN errors
                  THEN LET offset == constants[<<sensor_from, sensor_to>>]
                           error == errors[<<sensor_from, sensor_to>>]
                       IN  IF IsNa(offset) \/ IsNa(error) THEN NonePair
                           ELSE [offset |-> offset, error2 |-> error]
                  ELSE NonePair

\* Tree.get_raised_sensors
get_raised_sensors(cfg, set_id) == DictGet(DictGet(cfg, set_id, <<>>), "raised", <<>>)

\* the sensors a set can be left by towards the next set of a path: the
\* raised sensors of the set that are raised sensors or sensors of the next
bridge_sensors(cfg, set_current, set_next) ==
    Range(get_raised_sensors(cfg, set_current))
        \cap (Range(get_raised_sensors(cfg, set_next))
              \cup Range(DictGet(DictGet(cfg, set_next, <<>>), "sensors", <<>>)))

\* Tree._calculate_offset_chain, the breadth-first search: queue holds the
\* paths of sets to follow, self.sets is read in the order of the set ids;
\* the path found, <<>> when set_to is not reached
RECURSIVE offset_chain_path(_, _, _, _, _)
offset_chain_path(legacy, cfg, queue, visited, set_to) ==
    IF queue = <<>> THEN <<>>
    ELSE LET path == Head(queue)
             current_set == path[Len(path)]
             next_sets == SelectSeq(SortedSeqOf(DOMAIN legacy.sets),
                              LAMBDA next_set :
                                  /\ next_set \notin visited
                                  /\ next_set # current_set
                                  /\ bridge_sensors(cfg, current_set, next_set) # {})
         IN  IF current_set = set_to THEN path
             ELSE offset_chain_path(legacy, cfg,
                      Tail(queue) \o [i \in 1..Len(next_sets) |-> Append(path, next_sets[i])],
                      visited \cup Range(next_sets), set_to)

\* the choices of 'list(bridge_sensors)[0]' along a path of sets: one
\* bridge for every pair of consecutive sets, in the order of a Python set
BridgePicks(cfg, path) ==
    {pick \in [1..(Len(path) - 1) -> UNION {Range(get_raised_sensors(cfg, path[k])) :
                                               k \in 1..(Len(path) - 1)}] :
        \A k \in 1..(Len(path) - 1) : pick[k] \in bridge_sensors(cfg, path[k], path[k + 1])}

\* Tree._calculate_offset_through_path with the bridges pick
calculate_offset_through_path(legacy, sensor_from, sensor_to, path, pick) ==
    LET n == Len(path)
        steps == [k \in 1..n |->
                    get_offset_within_set(legacy, path[k],
                        IF k = 1 THEN sensor_from ELSE pick[k - 1],
                        IF k = n THEN sensor_to ELSE pick[k])]
    IN  IF \E k \in 1..n : steps[k].offset = None THEN NonePair
        ELSE [offset |-> QSum([k \in 1..n |-> steps[k].offset]),
              error2 |-> QSum([k \in 1..n |-> steps[k].error2])]

\* Tree.calculate_offset_between_sets with set_from and set_to given: the
\* path of sets it follows, <<>> for none
path_between_sets(legacy, cfg, set_from, set_to) ==
    IF set_from = set_to THEN <<set_from>>
    ELSE IF Range(get_raised_sensors(cfg, set_from))
                \cap Range(get_raised_sensors(cfg, set_to)) # {}
    THEN <<set_from, set_to>>
    ELSE offset_chain_path(legacy, cfg, << <<set_from>> >>, {set_from}, set_to)

\* Tree.calculate_offset_between_sets: the path and the pair it returns
calculate_offset_between_sets(legacy, sensor_from, sensor_to, path, pick) ==
    LET pair == IF path = <<>> THEN NonePair
                ELSE calculate_offset_through_path(legacy, sensor_from, sensor_to, path, pick)
    IN  [path |-> path, offset |-> pair.offset, error2 |-> pair.error2]

\* the first round-2 set whose sensors contain raised_local, as <<set>>
FirstR2SetOf(legacy, cfg, raised_local) ==
    First(legacy.sets_by_round[2],
          {r2_id \in Range(legacy.sets_by_round[2]) :
              InSeq(raised_local, DictGet(DictGet(cfg, r2_id, <<>>), "sensors", <<>>))})

\* the hops 2 and 3 of the legacy chain through one bridge, and the path;
\* <<>> when a hop has no offset
LegacyPathThrough(legacy, sensor, set_r1, raised_local, step1, set_r2, bridge_r2_r3, reference_sensor, reference_set) ==
    LET step2 == IF raised_local = bridge_r2_r3
                 THEN [offset |-> QZero, error2 |-> QZero]
                 ELSE get_offset_within_set(legacy, set_r2, raised_local, bridge_r2_r3)
        step3 == IF bridge_r2_r3 = reference_sensor
                 THEN [offset |-> QZero, error2 |-> QZero]
                 ELSE get_offset_within_set(legacy, reference_set, bridge_r2_r3,
                                            reference_sensor)
        Err(e) == IF IsNa(e) THEN QZero ELSE e
    IN  IF IsNa(step2.offset) \/ IsNa(step3.offset) THEN <<>>
        ELSE << Path(QAdd(QAdd(step1.offset, step2.offset), step3.offset),
                     propagate_error(<<Err(step1.error2), Err(step2.error2),
                                       Err(step3.error2)>>),
                     << <<set_r1, raised_local>>, <<set_r2, bridge_r2_r3>>,
                        <<reference_set, reference_sensor>> >>) >>

\* the result of the first chain that works, NonePair when none does
FirstChain(chains) ==
    LET working == First(chains, Range(chains) \ {<<>>})
    IN  IF working = <<>> THEN NonePair
        ELSE [offset |-> working[1][1].offset, error2 |-> working[1][1].error2]

\* Tree._calculate_chained_offset_r1: one chain per raised sensor of the
\* round-1 set, through the first round-2 set and its first bridge
calculate_chained_offset_r1(legacy, cfg, sensor, set_r1, raised_r1, reference_sensor, reference_set) ==
    LET r3_sensors == DictGet(DictGet(cfg, reference_set, <<>>), "sensors", <<>>)
        Chain(raised_local) ==
            LET step1 == get_offset_within_set(legacy, set_r1, sensor, raised_local)
                set_r2 == FirstR2SetOf(legacy, cfg, raised_local)
                r2_raised == DictGet(DictGet(cfg, set_r2[1], <<>>), "raised", <<>>)
                bridge == First(r2_raised, Range(r2_raised) \cap Range(r3_sensors))
            IN  IF IsNa(step1.offset) THEN <<>>
                ELSE IF set_r2 = <<>> THEN <<>>
                ELSE IF bridge = <<>> THEN <<>>
                ELSE LegacyPathThrough(legacy, sensor, set_r1, raised_local, step1,
                                       set_r2[1], bridge[1], reference_sensor, reference_set)
    IN  FirstChain([i \in 1..Len(raised_r1) |-> Chain(raised_r1[i])])

\* Tree._explore_all_paths
explore_all_paths(legacy, cfg, sensor, set_r1, raised_r1, reference_sensor, reference_set) ==
    LET r3_sensors == DictGet(DictGet(cfg, reference_set, <<>>), "sensors", <<>>)
        PathsVia(raised_local) ==
            LET step1 == get_offset_within_set(legacy, set_r1, sensor, raised_local)
                set_r2 == FirstR2SetOf(legacy, cfg, raised_local)
                r2_raised == DictGet(DictGet(cfg, set_r2[1], <<>>), "raised", <<>>)
            IN  IF IsNa(step1.offset) THEN <<>>
                ELSE IF set_r2 = <<>> THEN <<>>
                ELSE Concat([j \in 1..Len(r2_raised) |->
                        IF ~InSeq(r2_raised[j], r3_sensors) THEN <<>>
                        ELSE LegacyPathThrough(legacy, sensor, set_r1, raised_local, step1,
                                               set_r2[1], r2_raised[j],
                                               reference_sensor, reference_set)])
    IN  Concat([i \in 1..Len(raised_r1) |-> PathsVia(raised_r1[i])])

\* Tree._create_result_record; Error2_K is the square of Error_K
create_result_record(sensor, set_id, round_num, offset, error, status) ==
    [Sensor |-> sensor, Set |-> set_id, Round |-> round_num,
     Constante_Calibracion_K |-> IF offset # None THEN offset ELSE NaN,
     Error2_K |-> IF error # None THEN error ELSE NaN,
     Status |-> status]

\* the record of a raised sensor: its offset to another raised sensor of
\* the set, then the chain of that one
RaisedSensorRecord(sensor, set_id, other_raised, to_raised, chain_of_raised) ==
    IF other_raised = <<>> \/ to_raised.offset = None \/ chain_of_raised.offset = None
    THEN create_result_record(sensor, set_id, 1, None, None, "Sin conexion")
    ELSE create_result_record(sensor, set_id, 1,
             QAdd(to_raised.offset, chain_of_raised.offset),
             propagate_error(<<to_raised.error2, chain_of_raised.error2>>),
             "Calculado")

\* the record of a sensor that is not raised, from its chain
NormalSensorRecord(sensor, set_id, chain) ==
    IF chain.offset # None
    THEN create_result_record(sensor, set_id, 1, chain.offset, chain.error2, "Calculado")
    ELSE create_result_record(sensor, set_id, 1, None, None, "Sin conexion")

\* the record calculate_all_offsets appends for one sensor of a round-1 set
LegacyRecordOfSensor(legacy, cfg, sensor, set_id, reference_sensor, reference_set) ==
    LET set_config == DictGet(cfg, set_id, <<>>)
        set_raised == DictGet(set_config, "raised", <<>>)
        set_discarded == DictGet(set_config, "discarded", <<>>)
        other_raised == SelectSeq(set_raised, LAMBDA r : r # sensor)
    IN  IF InSeq(sensor, set_discarded)
        THEN create_result_record(sensor, set_id, 1, None, None, "Sensor descartado")
        ELSE IF InSeq(sensor, set_raised)
        THEN RaisedSensorRecord(sensor, set_id, other_raised,
                 get_offset_within_set(legacy, set_id, sensor, other_raised[1]),
                 calculate_chained_offset_r1(legacy, cfg, other_raised[1], set_id,
                     set_raised, reference_sensor, reference_set))
        ELSE NormalSensorRecord(sensor, set_id,
                 calculate_chained_offset_r1(legacy, cfg, sensor, set_id, set_raised,
                                             reference_sensor, reference_set))

\* the record of the absolute reference (tree.py, "Agregar la referencia absoluta")
LegacyReferenceRecord(reference_sensor, reference_set) ==
    create_result_record(reference_sensor, reference_set, 3, QZero, QZero, "Referencia")

\* Tree.calculate_all_offsets(reference_set=None, r1_sets_range=None)
calculate_all_offsets(legacy, cfg) ==
    LET reference_set == get_reference_set(legacy)
        r1_sets == determine_r1_sets(reference_set, cfg)
        reference_sensor == get_reference_info(reference_set, cfg)
        RecordsOfSet(set_id) ==
            LET set_config == DictGet(cfg, set_id, <<>>)
                set_sensors == DictGet(set_config, "sensors", <<>>)
            IN  IF DictGet(set_config, "raised", <<>>) = <<>> THEN <<>>
                ELSE [j \in 1..Len(set_sensors) |->
                        LegacyRecordOfSensor(legacy, cfg, set_sensors[j], set_id,
                                             reference_sensor[1], reference_set)]
        results == Concat([i \in 1..Len(r1_sets) |-> RecordsOfSet(r1_sets[i])])
                   \o << LegacyReferenceRecord(reference_sensor[1], reference_set) >>
    IN  IF reference_sensor = <<>> THEN <<>> ELSE SortSeq(results, RowBefore)

\* Tree._create_multipath_result_record; the Error2 and Var columns hold the
\* squares of the Error and Std columns of the code
create_multipath_result_record(sensor, set_id, n_paths, first, min, weighted, var_paths, max_diff, status) ==
    LET Num(x) == IF x # None THEN x ELSE NaN
    IN  [Sensor |-> sensor, Set |-> set_id, Round |-> 1, N_Caminos |-> n_paths,
         Constante_Primer_Camino_K |-> Num(first.offset),
         Error2_Primer_Camino_K |-> Num(first.error2),
         Constante_Min_Error_K |-> Num(min.offset),
         Error2_Min_K |-> Num(min.error2),
         Constante_Media_Ponderada_K |-> Num(weighted.offset),
         Error2_Media_Ponderada_K |-> Num(weighted.error2),
         Var_Entre_Caminos_K |-> Num(var_paths),
         Max_Diff_Caminos_K |-> Num(max_diff),
         Status |-> status]

\* np.argmin(errors): the first index of a least error
ArgMin(all_paths) ==
    CHOOSE i \in 1..Len(all_paths) :
        /\ \A j \in 1..Len(all_paths) : ~QLess(all_paths[j].error2, all_paths[i].error2)
        /\ \A j \in 1..(i - 1) : QLess(all_paths[i].error2, all_paths[j].error2)

\* np.std(offsets) ** 2
VarOf(all_paths) ==
    LET n == Q(Len(all_paths), 1)
        mean == QDiv(QSum([i \in 1..Len(all_paths) |-> all_paths[i].offset]), n)
    IN  QDiv(QSum([i \in 1..Len(all_paths) |->
                     QMul(QSub(all_paths[i].offset, mean),
                          QSub(all_paths[i].offset, mean))]), n)

\* np.max(offsets) - np.min(offsets)
MaxDiffOf(all_paths) ==
    LET hi == CHOOSE i \in 1..Len(all_paths) :
                 \A j \in 1..Len(all_paths) : ~QLess(all_paths[i].offset, all_paths[j].offset)
        lo == CHOOSE i \in 1..Len(all_paths) :
                 \A j \in 1..Len(all_paths) : ~QLess(all_paths[j].offset, all_paths[i].offset)
    IN  QSub(all_paths[hi].offset, all_paths[lo].offset)

\* the record of a sensor with the valid paths all_paths (not empty)
MultipathRecord(sensor, set_id, all_paths) ==
    create_multipath_result_record(sensor, set_id, Len(all_paths),
        all_paths[1], all_paths[ArgMin(all_paths)], multi_path_weighted(all_paths),
        VarOf(all_paths), MaxDiffOf(all_paths), "Calculado")

\* a record without paths
EmptyMultipathRecord(sensor, set_id, status) ==
    create_multipath_result_record(sensor, set_id, 0, NonePair, NonePair, NonePair,
                                   None, None, status)

\* the paths of a raised sensor: the paths of another raised sensor of the
\* set, each with the hop step0 to that sensor in front
ShiftedPaths(step0, paths_ref) ==
    [i \in 1..Len(paths_ref) |->
        Path(QAdd(step0.offset, paths_ref[i].offset),
             propagate_error(<<step0.error2, paths_ref[i].error2>>),
             paths_ref[i].path_details)]

RaisedMultipathRecord(sensor, set_id, other_raised, step0, paths_ref) ==
    IF other_raised = <<>> \/ step0.offset = None \/ paths_ref = <<>>
    THEN EmptyMultipathRecord(sensor, set_id, "Sin conexion")
    ELSE MultipathRecord(sensor, set_id, ShiftedPaths(step0, paths_ref))

NormalMultipathRecord(sensor, set_id, all_paths) ==
    IF all_paths = <<>> THEN EmptyMultipathRecord(sensor, set_id, "Sin caminos validos")
    ELSE MultipathRecord(sensor, set_id, all_paths)

\* the record calculate_all_offsets_multi_path appends for one sensor
MultipathRecordOfSensor(legacy, cfg, sensor, set_id, reference_sensor, reference_set) ==
    LET set_config == DictGet(cfg, set_id, <<>>)
        set_raised == DictGet(set_config, "raised", <<>>)
        set_discarded == DictGet(set_config, "discarded", <<>>)
        other_raised == SelectSeq(set_raised, LAMBDA r : r # sensor)
    IN  IF InSeq(sensor, set_discarded)
        THEN EmptyMultipathRecord(sensor, set_id, "Sensor descartado")
        ELSE IF InSeq(sensor, set_raised)
        THEN RaisedMultipathRecord(sensor, set_id, other_raised,
                 get_offset_within_set(legacy, set_id, sensor, other_raised[1]),
                 explore_all_paths(legacy, cfg, other_raised[1], set_id, set_raised,
                                   reference_sensor, reference_set))
        ELSE NormalMultipathRecord(sensor, set_id,
                 explore_all_paths(legacy, cfg, sensor, set_id, set_raised,
                                   reference_sensor, reference_set))

\* Tree.calculate_all_offsets_multi_path(reference_set=None, r1_sets_range=None)
calculate_all_offsets_multi_path(legacy, cfg) ==
    LET reference_set == get_reference_set(legacy)
        r1_sets == determine_r1_sets(reference_set, cfg)
        reference_sensor == get_reference_info(reference_set, cfg)
        RecordsOfSet(set_id) ==
            LET set_config == DictGet(cfg, set_id, <<>>)
                set_sensors == DictGet(set_config, "sensors", <<>>)
            IN  IF DictGet(set_config, "raised", <<>>) = <<>> THEN <<>>
                ELSE [j \in 1..Len(set_sensors) |->
                        MultipathRecordOfSensor(legacy, cfg, set_sensors[j], set_id,
                                                reference_sensor[1], reference_set)]
    IN  IF reference_sensor = <<>> THEN <<>>
        ELSE SortSeq(Concat([i \in 1..Len(r1_sets) |-> RecordsOfSet(r1_sets[i])]), RowBefore)

-----------------------------------------------------------------------------
(* The inputs: the configuration (config.yml, sensors.sets) and the        *)
(* measured tables.  One hierarchy of three rounds: the round-1 sets 1 and *)
(* 2, the round-2 sets 10 and 11 and the round-3 set 20.  Sensor 3 is      *)
(* measured in both round-2 sets, sensor 4 in sets of all three rounds,    *)
(* set 2 declares no raised sensors.  The first sensor of a set is its     *)
(* internal reference (utils.py: reference_id = sensor_ids[0]).            *)

SetConfig(round, sensors, raised, discarded) ==
    [round |-> round, sensors |-> sensors, raised |-> raised, discarded |-> discarded]

ConfigOf(raised1, raised10, raised11, discarded1) ==
    (1 :> SetConfig(1, <<1, 2, 3, 4>>, raised1, discarded1))
    @@ (2 :> SetConfig(1, <<5, 6>>, <<>>, <<>>))
    @@ (10 :> SetConfig(2, <<7, 3, 4>>, raised10, <<>>))
    @@ (11 :> SetConfig(2, <<8, 3, 9>>, raised11, <<>>))
    @@ (20 :> SetConfig(3, <<9, 7, 8, 4>>, <<>>, <<>>))

Configs ==
    {ConfigOf(r1, r10, r11, d1) :
        r1 \in {<<3>>, <<3, 4>>}, r10 \in {<<7>>, <<7, 4>>},
        r11 \in {<<8>>, <<8, 9>>}, d1 \in {<<>>, <<2>>, <<3>>}}

\* hundredths of a kelvin
Cent(n) == Q(n, 100)
\* the square of n hundredths
Cent2(n) == Q(n * n, 100 * 100)

CalibSet(set_number, reference_id, mean_offsets, std_offsets) ==
    [set_number |-> set_number, reference_id |-> reference_id,
     mean_offsets |-> mean_offsets, std_offsets |-> std_offsets]

\* the tables of the five sets as calculate_set_statistics leaves them:
\* the reference sensor of each set has mean 0 and std 0
BaseCalibSets ==
    << CalibSet(1, 1, (1 :> Cent(0)) @@ (2 :> Cent(1)) @@ (3 :> Cent(3)) @@ (4 :> Cent(-2)),
                      (1 :> Cent2(0)) @@ (2 :> Cent2(1)) @@ (3 :> Cent2(1)) @@ (4 :> Cent2(2))),
       CalibSet(2, 5, (5 :> Cent(0)) @@ (6 :> Cent(1)),
                      (5 :> Cent2(0)) @@ (6 :> Cent2(1))),
       CalibSet(10, 7, (7 :> Cent(0)) @@ (3 :> Cent(5)) @@ (4 :> Cent(2)),
                       (7 :> Cent2(0)) @@ (3 :> Cent2(1)) @@ (4 :> Cent2(1))),
       CalibSet(11, 8, (8 :> Cent(0)) @@ (3 :> Cent(4)) @@ (9 :> Cent(1)),
                       (8 :> Cent2(0)) @@ (3 :> Cent2(1)) @@ (9 :> Cent2(2))),
       CalibSet(20, 9, (9 :> Cent(0)) @@ (7 :> Cent(2)) @@ (8 :> Cent(-1)) @@ (4 :> Cent(3)),
                       (9 :> Cent2(0)) @@ (7 :> Cent2(1)) @@ (8 :> Cent2(1)) @@ (4 :> Cent2(1))) >>

\* a dict without one key
Without(d, key) == [k \in (DOMAIN d) \ {key} |-> d[k]]

\* the tables with one departure from the base tables
\*   "no_mean": sensor 3 was omitted in all runs of set 10
\*   "no_std" : std_offsets of set 20 has no entry for sensor 7
\*   "zero"   : every run error was 0, so every std is 0
CalibSetsOf(hole) ==
    [i \in 1..Len(BaseCalibSets) |->
        LET c == BaseCalibSets[i]
        IN  IF hole = "no_mean" /\ c.set_number = 10
            THEN [c EXCEPT !.mean_offsets = Without(@, 3), !.std_offsets = Without(@, 3)]
            ELSE IF hole = "no_std" /\ c.set_number = 20
            THEN [c EXCEPT !.std_offsets = Without(@, 7)]
            ELSE IF hole = "zero"
            THEN [c EXCEPT !.std_offsets = [k \in DOMAIN @ |-> QZero]]
            ELSE c]

Holes == {"none", "no_mean", "no_std", "zero"}

\* Departures from the one hierarchy, each over the base tables:
\*   "two_tops"    : a second branch with its own round-3 set: set 2 raises
\*                   sensor 6 to the round-2 set 12, which raises sensor 13
\*                   to the round-3 set 21
\*   "no_round"    : the configuration of set 1 has no key 'round'
\*   "unloaded_1"  : the data of set 1 is not loaded yet
\*   "unloaded_20" : the data of set 20 is not loaded yet
\*   "shuffled"    : the configuration lists the sensors of set 1 as 4, 1, 3, 2
\*   "root_only"   : the root set measures one more sensor, 15, which is in
\*                   no other set
\*   "raised_again": sensor 4 is the raised sensor of set 1 and of set 10
\* "hierarchy" is the hierarchy as it is, with any of the configurations and
\* of the holes; the departures are taken from the plain configuration
Scenarios ==
    {"hierarchy", "two_tops", "no_round", "unloaded_1", "unloaded_20", "shuffled",
     "root_only", "raised_again"}

PlainConfig == ConfigOf(<<3>>, <<7>>, <<8>>, <<>>)

ScenarioConfig(scenario, base) ==
    IF scenario = "two_tops"
    THEN (2 :> SetConfig(1, <<5, 6>>, <<6>>, <<>>))
         @@ (12 :> SetConfig(2, <<13, 6>>, <<13>>, <<>>))
         @@ (21 :> SetConfig(3, <<14, 13>>, <<>>, <<>>)) @@ base
    ELSE IF scenario = "no_round"
    THEN [base EXCEPT ![1] = [sensors |-> base[1].sensors, raised |-> base[1].raised,
                              discarded |-> base[1].discarded]]
    ELSE IF scenario = "shuffled" THEN [base EXCEPT ![1].sensors = <<4, 1, 3, 2>>]
    ELSE IF scenario = "root_only" THEN [base EXCEPT ![20].sensors = <<9, 7, 8, 4, 15>>]
    ELSE IF scenario = "raised_again"
    THEN [base EXCEPT ![1].raised = <<4>>, ![10].raised = <<4>>]
    ELSE base

ScenarioCalibSets(scenario, base) ==
    IF scenario = "two_tops"
    THEN base \o << CalibSet(12, 13, (13 :> Cent(0)) @@ (6 :> Cent(2)),
                                     (13 :> Cent2(0)) @@ (6 :> Cent2(1))),
                    CalibSet(21, 14, (14 :> Cent(0)) @@ (13 :> Cent(1)),
                                     (14 :> Cent2(0)) @@ (13 :> Cent2(1))) >>
    ELSE IF scenario = "unloaded_1" THEN SelectSeq(base, LAMBDA c : c.set_number # 1)
    ELSE IF scenario = "unloaded_20" THEN SelectSeq(base, LAMBDA c : c.set_number # 20)
    ELSE IF scenario = "root_only"
    THEN [base EXCEPT ![5].mean_offsets = @ @@ (15 :> Q(1, 20)),
                      ![5].std_offsets = @ @@ (15 :> Q(1, 2500))]
    ELSE base

\* The pairwise matrices of a set that measured the same data.  The index
\* holds every sensor of the set (set.py takes it from the sensor mapping of
\* the first run); the constant of a pair is the difference of the two means,
\* NaN when one of the two has no mean and on the diagonal (set.py gives
\* weight 0 to a zero RMS); its error is NaN when one of the two has no mean
\* or no std.
SetObjectOf(c, sensors) ==
    LET pairs == Range(sensors) \X Range(sensors)
        Mean(a) == DictGet(c.mean_offsets, a, NaN)
        Std2(a) == IF a \in DOMAIN c.mean_offsets THEN DictGet(c.std_offsets, a, NaN) ELSE NaN
    IN  [calibration_constants |->
            [p \in pairs |-> IF p[1] = p[2] \/ Mean(p[1]) = NaN \/ Mean(p[2]) = NaN THEN NaN
                             ELSE QSub(Mean(p[1]), Mean(p[2]))],
         calibration_errors |->
            [p \in pairs |-> IF p[1] = p[2] THEN QZero
                             ELSE IF Std2(p[1]) = NaN \/ Std2(p[2]) = NaN THEN NaN
                             ELSE QAdd(Std2(p[1]), Std2(p[2]))]]

\* sets_dict: set id -> Set object
SetsDictOf(cs, cfg) ==
    [set_id \in {cs[i].set_number : i \in 1..Len(cs)} |->
        SetObjectOf(cs[CHOOSE i \in 1..Len(cs) : cs[i].set_number = set_id],
                    DictGet(DictGet(cfg, set_id, <<>>), "sensors", <<>>))]

-----------------------------------------------------------------------------
(* CalibrationNetwork (calibration_network.py).  A network is              *)
(* [sets, graph]: the Set objects that stay after pruning and the edges of *)
(* the graph, a function from the edges {a, b} to their bridge sensors.    *)
(* A float is a rational or NaN.                                           *)

FAdd(x, y) == IF x = NaN \/ y = NaN THEN NaN ELSE QAdd(x, y)
FNeg(x) == IF x = NaN THEN NaN ELSE QNeg(x)

RECURSIVE FSum(_)
FSum(s) == IF s = <<>> THEN QZero ELSE FAdd(Head(s), FSum(Tail(s)))

\* calibration_constants.index
IndexOf(set_obj) == {p[1] : p \in DOMAIN set_obj.calibration_constants}

\* CalibrationNetwork._find_bridge_sensors
find_bridge_sensors(sets, raised_sensors, other_set_id) ==
    IF other_set_id \notin DOMAIN sets THEN <<>>
    ELSE SelectSeq(raised_sensors, LAMBDA sensor : sensor \in IndexOf(sets[other_set_id]))

\* CalibrationNetwork._build_graph_edges and _connect_to_next_round
build_graph_edges(sets, cfg) ==
    LET Known == DOMAIN sets \cap DOMAIN cfg
        Bridges(a, b) ==
            find_bridge_sensors(sets, DictGet(cfg[a], "raised", <<>>), b)
        Up == {e \in Known \X Known :
                  /\ DictGet(cfg[e[2]], "round", 1) = DictGet(cfg[e[1]], "round", 1) + 1
                  /\ Bridges(e[1], e[2]) # <<>>}
    IN  [edge \in {{e[1], e[2]} : e \in Up} |->
            Bridges((CHOOSE e \in Up : {e[1], e[2]} = edge)[1],
                    (CHOOSE e \in Up : {e[1], e[2]} = edge)[2])]

\* CalibrationNetwork._find_reference_set, as <<set>>: the configuration is
\* read in the order of the set ids; a set of a round higher than all the
\* sets before it replaces the reference when it is one of the sets
find_reference_set(sets, cfg) ==
    LET ids == SortedSeqOf(DOMAIN cfg)
        Round(i) == DictGet(cfg[ids[i]], "round", 1)
        found == {i \in 1..Len(ids) : /\ \A j \in 1..(i - 1) : Round(j) < Round(i)
                                      /\ ids[i] \in DOMAIN sets}
    IN  IF found = {} THEN <<>>
        ELSE << ids[CHOOSE i \in found : \A j \in found : j <= i] >>

\* nx.node_connected_component
RECURSIVE node_connected_component(_, _)
node_connected_component(graph, nodes) ==
    LET more == nodes \cup UNION {edge \in DOMAIN graph : edge \cap nodes # {}}
    IN  IF more = nodes THEN nodes ELSE node_connected_component(graph, more)

\* the sets and the edges that are connected to the reference set
pruned(sets, graph, connected_sets) ==
    [sets |-> [set_id \in DOMAIN sets \cap connected_sets |-> sets[set_id]],
     graph |-> [edge \in {e \in DOMAIN graph : e \subseteq connected_sets} |-> graph[edge]]]

\* CalibrationNetwork._validate_and_prune_disconnected_sets
validate_and_prune_disconnected_sets(sets, cfg, graph, ref_set) ==
    IF sets = <<>> \/ ref_set = <<>> THEN [sets |-> sets, graph |-> graph]
    ELSE pruned(sets, graph, node_connected_component(graph, {ref_set[1]}))

\* CalibrationNetwork.__init__ and _build_graph_from_config
CalibrationNetwork(sets, cfg) ==
    validate_and_prune_disconnected_sets(sets, cfg, build_graph_edges(sets, cfg),
                                         find_reference_set(sets, cfg))

\* CalibrationNetwork._get_set_round
get_set_round(set_id, cfg) == DictGet(DictGet(cfg, set_id, <<>>), "round", 1)

\* CalibrationNetwork.find_sensor_set, as <<set>>; self.sets is read in the
\* order of the set ids
find_sensor_set(network, sensor_id) ==
    First(SortedSeqOf(DOMAIN network.sets),
          {set_num \in DOMAIN network.sets : sensor_id \in IndexOf(network.sets[set_num])})

\* nx.shortest_path(graph, set_a, set_b): every path with the fewest edges
shortest_paths(network, set_a, set_b) ==
    LET nodes == DOMAIN network.sets
        PathsOfLen(n) ==
            {path \in [1..n -> nodes] :
                /\ path[1] = set_a
                /\ path[n] = set_b
                /\ \A i \in 1..(n - 1) : {path[i], path[i + 1]} \in DOMAIN network.graph}
        lens == {n \in 1..Cardinality(nodes) : PathsOfLen(n) # {}}
    IN  IF lens = {} THEN {}
        ELSE PathsOfLen(CHOOSE n \in lens : \A m \in lens : n <= m)

\* variant: the path is returned from set_b to set_a
find_path_between_sets_backwards(network, set_a, set_b) ==
    IF shortest_paths(network, set_a, set_b) = {} THEN {<<>>}
    ELSE {[k \in 1..Len(path) |-> path[Len(path) + 1 - k]] :
             path \in shortest_paths(network, set_a, set_b)}
\* CalibrationNetwork.find_path_between_sets: the paths it can return
find_path_between_sets(network, set_a, set_b) ==
    IF shortest_paths(network, set_a, set_b) = {} THEN {<<>>}
    ELSE shortest_paths(network, set_a, set_b)

\* compute_offset_between, the branch set_i == set_j
offset_inside_set(set_obj, sensor_i, sensor_j) ==
    LET constants == set_obj.calibration_constants
        errors == set_obj.calibration_errors
    IN  IF <<sensor_i, sensor_j>> \in DOMAIN constants \cap DOMAIN errors
        THEN [offset |-> constants[<<sensor_i, sensor_j>>],
              error2 |-> errors[<<sensor_i, sensor_j>>]]
        ELSE IF <<sensor_j, sensor_i>> \in DOMAIN constants \cap DOMAIN errors
        THEN [offset |-> FNeg(constants[<<sensor_j, sensor_i>>]),
              error2 |-> errors[<<sensor_j, sensor_i>>]]
        ELSE [offset |-> QZero, error2 |-> QZero]

\* compute_offset_between, one pass of the loop over the edges (a, b) of the
\* path: dA + dB and eA**2 + eB**2
offset_over_edge(network, sensor_i, sensor_j, a, b) ==
    LET sensor_bridge == network.graph[{a, b}][1]
        setA == network.sets[a]
        setB == network.sets[b]
        inA == sensor_i # sensor_bridge
               /\ <<sensor_i, sensor_bridge>> \in DOMAIN setA.calibration_constants
        inB == sensor_bridge # sensor_j
               /\ <<sensor_bridge, sensor_j>> \in DOMAIN setB.calibration_constants
        dA == IF inA THEN setA.calibration_constants[<<sensor_i, sensor_bridge>>] ELSE QZero
        eA == IF inA THEN setA.calibration_errors[<<sensor_i, sensor_bridge>>] ELSE QZero
        dB == IF inB THEN setB.calibration_constants[<<sensor_bridge, sensor_j>>] ELSE QZero
        eB == IF inB THEN setB.calibration_errors[<<sensor_bridge, sensor_j>>] ELSE QZero
    IN  [offset |-> FAdd(dA, dB), error2 |-> FAdd(eA, eB)]

\* compute_offset_between, the loop over the path
offset_along_path(network, sensor_i, sensor_j, path) ==
    LET edges == [k \in 1..(Len(path) - 1) |->
                    offset_over_edge(network, sensor_i, sensor_j, path[k], path[k + 1])]
    IN  [raised |-> "", offset |-> FSum([k \in 1..Len(edges) |-> edges[k].offset]),
         error2 |-> FSum([k \in 1..Len(edges) |-> edges[k].error2])]

Raised(exception) == [raised |-> exception, offset |-> None, error2 |-> None]
Returned(pair) == [raised |-> "", offset |-> pair.offset, error2 |-> pair.error2]

\* CalibrationNetwork.compute_offset_between with the path that
\* find_path_between_sets returns for the two sets (<<>> for no path)
compute_offset_between(network, sensor_i, sensor_j, path) ==
    LET set_i == find_sensor_set(network, sensor_i)
        set_j == find_sensor_set(network, sensor_j)
    IN  IF sensor_i = sensor_j THEN Returned([offset |-> QZero, error2 |-> QZero])
        ELSE IF set_i = <<>> \/ set_j = <<>> THEN Raised("ValueError")
        ELSE IF set_i = set_j
        THEN Returned(offset_inside_set(network.sets[set_i[1]], sensor_i, sensor_j))
        ELSE IF path = <<>> THEN Raised("RuntimeError")
        ELSE offset_along_path(network, sensor_i, sensor_j, path)

\* CalibrationNetwork.get_reference_set, as <<set>>: the first set, in the
\* order of self.sets, of the highest round
network_get_reference_set(network, cfg) ==
    LET ids == SortedSeqOf(DOMAIN network.sets)
    IN  First(ids, {s \in DOMAIN network.sets :
                      \A other \in DOMAIN network.sets :
                          get_set_round(other, cfg) <= get_set_round(s, cfg)})

\* compute_offset_to_top_reference, step 2, as <<sensor>>: the first raised
\* sensor of the reference set, or the first sensor of the tables of a
\* round-3 set; <<>> stands for the RuntimeError
top_reference_sensor(network, cfg, ref_set) ==
    LET raised == DictGet(DictGet(cfg, ref_set, <<>>), "raised", <<>>)
        sensors == DictGet(DictGet(cfg, ref_set, <<>>), "sensors", <<>>)
    IN  IF raised # <<>> THEN <<raised[1]>>
        ELSE IF get_set_round(ref_set, cfg) = 3 /\ IndexOf(network.sets[ref_set]) # {}
        THEN <<sensors[1]>>
        ELSE <<>>

\* safe_get(df, i, j) on the constants
safe_get(df, i, j) ==
    IF <<i, j>> \in DOMAIN df THEN df[<<i, j>>]
    ELSE IF <<j, i>> \in DOMAIN df THEN FNeg(df[<<j, i>>])
    ELSE QZero

\* float(safe_get(df, i, j)) ** 2 on the errors, which the model holds squared
safe_get_error2(df, i, j) ==
    IF <<i, j>> \in DOMAIN df THEN df[<<i, j>>]
    ELSE IF <<j, i>> \in DOMAIN df THEN df[<<j, i>>]
    ELSE QZero

max_iterations == 10

\* variant: the set that holds the bridge may be of any round
climb_next_set_any_round(network, cfg, current_set, current_round, bridge) ==
    First(SortedSeqOf(DOMAIN network.sets),
          {s \in DOMAIN network.sets :
              /\ s # current_set
              /\ IF get_set_round(s, cfg) >= 3 THEN bridge \in IndexOf(network.sets[s])
                 ELSE InSeq(bridge, DictGet(DictGet(cfg, s, <<>>), "raised", <<>>))})
\* compute_offset_to_top_reference, step 5, the search of the set of the next
\* round that holds the bridge, as <<set>>: in the tables of a set of round
\* 3 or more, in the raised sensors of a set of a lower round
climb_next_set(network, cfg, current_set, current_round, bridge) ==
    First(SortedSeqOf(DOMAIN network.sets),
          {s \in DOMAIN network.sets :
              /\ s # current_set
              /\ get_set_round(s, cfg) = current_round + 1
              /\ IF get_set_round(s, cfg) >= 3 THEN bridge \in IndexOf(network.sets[s])
                 ELSE InSeq(bridge, DictGet(DictGet(cfg, s, <<>>), "raised", <<>>))})

\* compute_offset_to_top_reference, steps 1 to 4: up to the while loop.  The
\* call "climb" is the call at the head of its while loop; the call
\* "compute_offset_to_top_reference" has ended: it raised, or it returned
\* (total_offset, total_error, pasos)
climb_begin(network, cfg, sensor_id) ==
    LET ref_set == network_get_reference_set(network, cfg)
        ref_sensor == top_reference_sensor(network, cfg, ref_set[1])
        set_i == find_sensor_set(network, sensor_id)
    IN  IF ref_set = <<>>
        THEN Call("compute_offset_to_top_reference", <<sensor_id>>, Raised("RuntimeError"))
        ELSE IF ref_sensor = <<>>
        THEN Call("compute_offset_to_top_reference", <<sensor_id>>, Raised("RuntimeError"))
        ELSE IF set_i = <<>>
        THEN Call("compute_offset_to_top_reference", <<sensor_id>>, Raised("ValueError"))
        ELSE IF set_i = ref_set
        THEN Call("compute_offset_to_top_reference", <<sensor_id>>,
                  [raised |-> "", offset |-> QZero, error2 |-> QZero, pasos |-> <<>>])
        ELSE Call("climb", <<sensor_id>>,
                 [current_set |-> set_i[1], current_sensor |-> sensor_id,
                  current_round |-> get_set_round(set_i[1], cfg),
                  start_round |-> get_set_round(set_i[1], cfg),
                  ref_set |-> ref_set[1], ref_sensor |-> ref_sensor[1],
                  ref_round |-> get_set_round(ref_set[1], cfg),
                  iteration |-> 0, total_offset |-> QZero, total_error2 |-> QZero,
                  pasos |-> <<>>])

\* compute_offset_to_top_reference, step 6 and the check of the iterations
\* before it: the last hop inside the reference set
climb_end(network, sensor_id, at) ==
    IF at.iteration >= max_iterations
    THEN Call("compute_offset_to_top_reference", <<sensor_id>>, Raised("RuntimeError"))
    ELSE LET ref == network.sets[at.ref_set]
             off_final == safe_get(ref.calibration_constants, at.current_sensor, at.ref_sensor)
             err_final == safe_get_error2(ref.calibration_errors, at.current_sensor,
                                          at.ref_sensor)
         IN  Call("compute_offset_to_top_reference", <<sensor_id>>,
                 [raised |-> "", offset |-> FAdd(at.total_offset, off_final),
                  error2 |-> FAdd(at.total_error2, err_final),
                  pasos |-> Append(at.pasos, <<at.ref_set, at.current_sensor, at.ref_sensor>>)])

\* compute_offset_to_top_reference, step 5: one test of the condition of the
\* while loop, and one pass of its body when the condition holds
climb_iteration(network, cfg, sensor_id, at) ==
    LET raised == DictGet(DictGet(cfg, at.current_set, <<>>), "raised", <<>>)
        next_set == climb_next_set(network, cfg, at.current_set, at.current_round, raised[1])
        current == network.sets[at.current_set]
    IN  IF ~(at.current_round < at.ref_round /\ at.iteration < max_iterations)
        THEN climb_end(network, sensor_id, at)
        ELSE IF at.current_set = at.ref_set
        THEN climb_end(network, sensor_id, [at EXCEPT !.iteration = @ + 1])
        ELSE IF raised = <<>>
        THEN Call("compute_offset_to_top_reference", <<sensor_id>>, Raised("RuntimeError"))
        ELSE IF next_set = <<>>
        THEN Call("compute_offset_to_top_reference", <<sensor_id>>, Raised("RuntimeError"))
        ELSE Call("climb", <<sensor_id>>,
                 [at EXCEPT
                     !.iteration = @ + 1,
                     !.total_offset = FAdd(@, safe_get(current.calibration_constants,
                                                       at.current_sensor, raised[1])),
                     !.total_error2 = FAdd(@, safe_get_error2(current.calibration_errors,
                                                              at.current_sensor, raised[1])),
                     !.pasos = Append(@, <<at.current_set, next_set[1],
                                           at.current_sensor, raised[1]>>),
                     !.current_sensor = raised[1],
                     !.current_set = next_set[1],
                     !.current_round = @ + 1])

-----------------------------------------------------------------------------
(* Run (run.py): the pairwise matrices of one run.  temperature_data maps   *)
(* a sensor to its column of samples, a number or NaN each; a matrix is a   *)
(* function from the pairs of sensors to a number or NaN.  The matrix of    *)
(* stat_err_offsets holds the squares of the RMS values.                    *)

\* the sensors of the run, in the order of sensor_mapping
RunSensors == <<1, 2, 3>>

\* the rows of the two time windows: minutes 20 to 40 from the start, and
\* the last 20 minutes
OffsetsWindow == 1..2
RmsWindow == 2..3

RunColumns ==
    { <<Cent(0), Cent(1), Cent(3)>>, <<Cent(2), Cent(2), Cent(2)>>,
      <<NaN, Cent(1), Cent(1)>>, <<NaN, NaN, NaN>> }

TemperatureData == [Range(RunSensors) -> RunColumns]

\* col.isna().all() over the rows of a window
AllNa(col, rows) == \A k \in rows : col[k] = NaN

\* Series.mean(): the mean of the values that are not NaN, NaN when none
SeriesMean(values) ==
    LET kept == SelectSeq(values, LAMBDA v : v # NaN)
    IN  IF kept = <<>> THEN NaN ELSE QDiv(QSum(kept), Q(Len(kept), 1))

\* col1 - col2 over the rows of a window
ColumnDifference(col1, col2, rows) ==
    [k \in 1..Cardinality(rows) |->
        LET row == SortedSeqOf(rows)[k] IN FAdd(col1[row], FNeg(col2[row]))]

\* the position of a sensor in the list of sensors
PositionOf(sensors, sensor) == CHOOSE i \in 1..Len(sensors) : sensors[i] = sensor

\* variant: the mirrored entry is written with the same sign
offsets_mirrored(temperature_data, sensors, rows) ==
    LET Val(s1, s2) ==
            IF AllNa(temperature_data[s1], rows) \/ AllNa(temperature_data[s2], rows)
            THEN NaN
            ELSE SeriesMean(ColumnDifference(temperature_data[s1], temperature_data[s2], rows))
    IN  [p \in Range(sensors) \X Range(sensors) |->
            IF PositionOf(sensors, p[1]) = PositionOf(sensors, p[2]) THEN QZero
            ELSE IF PositionOf(sensors, p[1]) < PositionOf(sensors, p[2])
            THEN Val(p[1], p[2])
            ELSE Val(p[2], p[1])]
\* Run.offsets: mat.loc[s1, s2] = val and mat.loc[s2, s1] = -val for i < j
offsets(temperature_data, sensors, rows) ==
    LET Val(s1, s2) ==
            IF AllNa(temperature_data[s1], rows) \/ AllNa(temperature_data[s2], rows)
            THEN NaN
            ELSE SeriesMean(ColumnDifference(temperature_data[s1], temperature_data[s2], rows))
    IN  [p \in Range(sensors) \X Range(sensors) |->
            IF PositionOf(sensors, p[1]) = PositionOf(sensors, p[2]) THEN QZero
            ELSE IF PositionOf(sensors, p[1]) < PositionOf(sensors, p[2])
            THEN Val(p[1], p[2])
            ELSE FNeg(Val(p[2], p[1]))]

\* (col1 - col2 - mean_off) ** 2
SquaredDeviations(differences, mean_off) ==
    [k \in 1..Len(differences) |->
        LET deviation == FAdd(differences[k], FNeg(mean_off))
        IN  IF deviation = NaN THEN NaN ELSE QMul(deviation, deviation)]

\* Run.stat_err_offsets: rms_mat.loc[s1, s2] = rms_mat.loc[s2, s1] = val
stat_err_offsets(temperature_data, sensors, rows, offsets_data) ==
    LET Val(s1, s2) ==
            IF AllNa(temperature_data[s1], rows) \/ AllNa(temperature_data[s2], rows)
            THEN NaN
            ELSE SeriesMean(SquaredDeviations(
                     ColumnDifference(temperature_data[s1], temperature_data[s2], rows),
                     offsets_data[<<s1, s2>>]))
    IN  [p \in Range(sensors) \X Range(sensors) |->
            IF PositionOf(sensors, p[1]) = PositionOf(sensors, p[2]) THEN QZero
            ELSE IF PositionOf(sensors, p[1]) < PositionOf(sensors, p[2])
            THEN Val(p[1], p[2])
            ELSE Val(p[2], p[1])]

-----------------------------------------------------------------------------
(* The lists of paths handed to the combiners.                             *)

MaxPaths == 3

PathValues ==
    { Path(Q(1, 10), Q(1, 10000), <<>>),    \* (0.100, 0.010)
      Path(Q(3, 25), Q(1, 2500), <<>>),     \* (0.120, 0.020)
      Path(Q(1, 10), QZero, <<>>),          \* (0.100, 0)
      Path(Q(-1, 20), Q(1, 10000), <<>>) }  \* (-0.050, 0.010)

InputPaths == UNION {[1..n -> PathValues] : n \in 1..MaxPaths}

-----------------------------------------------------------------------------
(* State.                                                                  *)
(*   config    : config['sensors']['sets']                                 *)
(*   calibsets : the CalibSets, in the order of the calibsets dict         *)
(*   tree      : the Tree of the TreeEntry pipeline                        *)
(*   legacy    : the legacy Tree object (sets, sets_by_round)              *)
(*   network   : the CalibrationNetwork object (sets, graph)               *)
(*   paths     : a list of valid paths of one sensor                       *)
(*   result    : the last call and the value it returned                   *)
(* A behaviour is one session: one operation is called on the legacy tree, *)
(* on the network or on a list of paths, or the TreeEntry tree is built    *)
(* and one operation is called on it.                                      *)

VARIABLES config, calibsets, tree, legacy, network, paths, result

vars == <<config, calibsets, tree, legacy, network, paths, result>>


Fresh == result.op = "init"
Idle == result.op \in {"init", "create_tree_from_calibsets"}

Init ==
    /\ \/ /\ \E scenario \in Scenarios, base \in Configs, hole \in Holes :
                /\ scenario = "hierarchy" \/ (base = PlainConfig /\ hole = "none")
                /\ config = ScenarioConfig(scenario, base)
                /\ calibsets = ScenarioCalibSets(scenario, CalibSetsOf(hole))
          /\ paths = <<>>
       \/ /\ config = <<>>
          /\ calibsets = <<>>
          /\ paths \in InputPaths \cup {<<>>}
    /\ tree = EmptyTree
    /\ legacy = LegacyTree(SetsDictOf(calibsets, config), config)
    /\ network = CalibrationNetwork(SetsDictOf(calibsets, config), config)
    /\ result = Call("init", <<>>, None)

\* main.py: tree = create_tree_from_calibsets(calibsets, config, root_set_id)
CreateTree ==
    /\ Fresh
    /\ \E root_set_id \in {<<>>, <<20>>} :
          /\ tree' = create_tree_from_calibsets(calibsets, config, root_set_id)
          /\ result' = Call("create_tree_from_calibsets", root_set_id, None)
    /\ UNCHANGED <<config, calibsets, legacy, network, paths>>

\* main.py: df = calibrate_tree(tree, reference_sensor_id=None)
CalibrateTree ==
    /\ Idle
    /\ result' = Call("calibrate_tree", <<>>, calibrate_tree(tree))
    /\ UNCHANGED <<config, calibsets, tree, legacy, network, paths>>

\* find_all_paths_to_reference for one sensor of one round-1 entry
FindAllPaths ==
    /\ Idle
    /\ \E i \in 1..Len(tree.entries) :
          /\ tree.entries[i].round = 1
          /\ \E sensor_id \in Range(tree.entries[i].sensors) :
                result' = Call("find_all_paths_to_reference",
                               <<sensor_id, tree.entries[i].set_number>>,
                               find_all_paths_to_reference(sensor_id, tree.entries[i], tree))
    /\ UNCHANGED <<config, calibsets, tree, legacy, network, paths>>

\* weighted_average_paths(paths)
WeightedAveragePaths ==
    /\ Fresh
    /\ result' = Call("weighted_average_paths", <<>>, weighted_average_paths(paths))
    /\ UNCHANGED <<config, calibsets, tree, legacy, network, paths>>

\* the legacy tree has a set to take as reference
HasReferenceSet == legacy.sets_by_round[3] # <<>> \/ legacy.sets_by_round[2] # <<>>

\* Tree.calculate_all_offsets()
CalculateAllOffsets ==
    /\ Fresh
    /\ HasReferenceSet
    /\ result' = Call("calculate_all_offsets", <<>>, calculate_all_offsets(legacy, config))
    /\ UNCHANGED <<config, calibsets, tree, legacy, network, paths>>

\* Tree.calculate_all_offsets_multi_path()
CalculateAllOffsetsMultiPath ==
    /\ Fresh
    /\ HasReferenceSet
    /\ result' = Call("calculate_all_offsets_multi_path", <<>>,
                      calculate_all_offsets_multi_path(legacy, config))
    /\ UNCHANGED <<config, calibsets, tree, legacy, network, paths>>

\* the sensor calculate_all_offsets_multi_path explores paths for when it
\* processes sensor: the sensor itself, or the first other raised sensor of
\* the set for a raised sensor that has an offset to it; <<>> when none
ExploredFor(sensor, set_id, set_raised) ==
    IF InSeq(sensor, set_raised)
    THEN LET other_raised == SelectSeq(set_raised, LAMBDA r : r # sensor)
         IN  IF other_raised = <<>> THEN <<>>
             ELSE IF get_offset_within_set(legacy, set_id, sensor, other_raised[1]).offset = None
             THEN <<>>
             ELSE <<other_raised[1]>>
    ELSE <<sensor>>

\* the call of Tree._explore_all_paths for the explored sensor, <<>> for none
ExploreCall(explored, set_id, set_raised, reference_sensor, reference_set) ==
    /\ explored # <<>>
    /\ result' = Call("explore_all_paths", <<explored[1], set_id>>,
                      explore_all_paths(legacy, config, explored[1], set_id, set_raised,
                                        reference_sensor, reference_set))

\* the loop of calculate_all_offsets_multi_path over the sensors of one set
ExploreInSet(set_id, set_config, reference_sensor, reference_set) ==
    /\ DictGet(set_config, "raised", <<>>) # <<>>
    /\ \E sensor \in Range(DictGet(set_config, "sensors", <<>>)) :
          /\ ~InSeq(sensor, DictGet(set_config, "discarded", <<>>))
          /\ ExploreCall(ExploredFor(sensor, set_id, DictGet(set_config, "raised", <<>>)),
                         set_id, DictGet(set_config, "raised", <<>>),
                         reference_sensor, reference_set)

\* the loop of calculate_all_offsets_multi_path over the round-1 sets
ExploreInSets(r1_sets, reference_sensor, reference_set) ==
    /\ reference_sensor # <<>>
    /\ \E i \in 1..Len(r1_sets) :
          ExploreInSet(r1_sets[i], DictGet(config, r1_sets[i], <<>>),
                       reference_sensor[1], reference_set)

\* the reference of the legacy tree is determined, then the sets are explored
ExploreFrom(reference_set) ==
    ExploreInSets(determine_r1_sets(reference_set, config),
                  get_reference_info(reference_set, config), reference_set)

\* Tree._explore_all_paths as calculate_all_offsets_multi_path calls it for
\* a sensor of a round-1 set
ExploreAllPaths ==
    /\ Fresh
    /\ HasReferenceSet
    /\ ExploreFrom(get_reference_set(legacy))
    /\ UNCHANGED <<config, calibsets, tree, legacy, network, paths>>

\* the call of Tree.calculate_offset_between_sets over the path of sets it
\* finds, for one choice of the bridges
OffsetBetweenSetsCall(sensor_from, sensor_to, set_from, set_to, path) ==
    \E pick \in BridgePicks(config, path) :
        result' = Call("calculate_offset_between_sets", <<sensor_from, set_from, set_to>>,
                       calculate_offset_between_sets(legacy, sensor_from, sensor_to,
                                                     path, pick))

\* Tree.calculate_offset_between_sets(sensor, reference_sensor, set, reference_set)
\* for a sensor of a round-1 set
CalculateOffsetBetweenSets ==
    /\ Fresh
    /\ HasReferenceSet
    /\ get_reference_info(get_reference_set(legacy), config) # <<>>
    /\ \E set_from \in Range(legacy.sets_by_round[1]) :
          \E sensor_from \in Range(DictGet(DictGet(config, set_from, <<>>), "sensors", <<>>)) :
             OffsetBetweenSetsCall(sensor_from,
                 get_reference_info(get_reference_set(legacy), config)[1],
                 set_from, get_reference_set(legacy),
                 path_between_sets(legacy, config, set_from, get_reference_set(legacy)))
    /\ UNCHANGED <<config, calibsets, tree, legacy, network, paths>>

\* the weighted mean of calculate_all_offsets_multi_path over a list of paths
MultiPathWeighted ==
    /\ Fresh
    /\ paths # <<>>
    /\ result' = Call("multi_path_weighted", <<>>, multi_path_weighted(paths))
    /\ UNCHANGED <<config, calibsets, tree, legacy, network, paths>>

\* the sensors the network is asked about; 99 is in no set
AskedFrom == {1, 3, 4, 7}
AskedTo == {1, 3, 7, 8, 9, 99}

\* CalibrationNetwork.compute_offset_between(sensor_i, sensor_j)
ComputeOffsetBetween ==
    /\ Fresh
    /\ network.sets # <<>>
    /\ \E sensor_i \in AskedFrom, sensor_j \in AskedTo :
          LET set_i == find_sensor_set(network, sensor_i)
              set_j == find_sensor_set(network, sensor_j)
              found == IF set_i = <<>> \/ set_j = <<>> \/ set_i = set_j THEN {<<>>}
                       ELSE find_path_between_sets(network, set_i[1], set_j[1])
          IN  \E path \in found :
                 result' = Call("compute_offset_between", <<sensor_i, sensor_j, path>>,
                                compute_offset_between(network, sensor_i, sensor_j, path))
    /\ UNCHANGED <<config, calibsets, tree, legacy, network, paths>>

\* CalibrationNetwork.find_path_between_sets(set_a, set_b) for two sets of
\* the network
FindPathBetweenSets ==
    /\ Fresh
    /\ \E set_a \in DOMAIN network.sets, set_b \in DOMAIN network.sets :
          \E path \in find_path_between_sets(network, set_a, set_b) :
              result' = Call("find_path_between_sets", <<set_a, set_b>>, path)
    /\ UNCHANGED <<config, calibsets, tree, legacy, network, paths>>

\* the sensors whose offset to the top reference is asked; 15 is in the root
\* set only, 99 is in no set
AskedClimb == {1, 4, 7, 9, 15, 99}

\* CalibrationNetwork.compute_offset_to_top_reference(sensor_id) is called
\* and runs up to its while loop
ComputeOffsetToTopReference ==
    /\ Fresh
    /\ network.sets # <<>>
    /\ \E sensor_id \in AskedClimb : result' = climb_begin(network, config, sensor_id)
    /\ UNCHANGED <<config, calibsets, tree, legacy, network, paths>>

\* the call goes once through its while loop, or leaves it and ends
ClimbIteration ==
    /\ result.op = "climb"
    /\ result' = climb_iteration(network, config, result.args[1], result.value)
    /\ UNCHANGED <<config, calibsets, tree, legacy, network, paths>>

\* step 5 of CalibrationNetwork.compute_weighted_offset_all_paths over the
\* valid paths of a sensor
ComputeWeightedOffset ==
    /\ Fresh
    /\ paths # <<>>
    /\ result' = Call("compute_weighted_offset_all_paths", <<>>,
                      compute_weighted_offset(paths))
    /\ UNCHANGED <<config, calibsets, tree, legacy, network, paths>>

\* Run.offsets() and Run.stat_err_offsets() of one run, in a session with no
\* configured set and no list of paths
RunMatrices ==
    /\ Fresh
    /\ config = <<>>
    /\ paths = <<>>
    /\ \E temperature_data \in TemperatureData :
          \E offsets_data \in {offsets(temperature_data, RunSensors, OffsetsWindow)} :
              result' = Call("offsets", <<temperature_data>>,
                  [offsets_data |-> offsets_data,
                   rms_offsets |-> stat_err_offsets(temperature_data, RunSensors,
                                                    RmsWindow, offsets_data)])
    /\ UNCHANGED <<config, calibsets, tree, legacy, network, paths>>

Next ==
    \/ CreateTree
    \/ CalibrateTree
    \/ FindAllPaths
    \/ WeightedAveragePaths
    \/ CalculateAllOffsets
    \/ CalculateAllOffsetsMultiPath
    \/ ExploreAllPaths
    \/ CalculateOffsetBetweenSets
    \/ MultiPathWeighted
    \/ ComputeOffsetBetween
    \/ ComputeWeightedOffset
    \/ RunMatrices
    \/ FindPathBetweenSets
    \/ ComputeOffsetToTopReference
    \/ ClimbIteration

Spec == Init /\ [][Next]_vars

\* compute_offset_to_top_reference runs in one thread and nothing suspends
\* it: a call that is in its while loop goes on
SpecFair == Spec /\ WF_vars(ClimbIteration)

-----------------------------------------------------------------------------
(* Properties.                                                             *)

\* the rows of a result table
Rows(table) == {table[i] : i \in 1..Len(table)}

\* the discard list of a set in the configuration
DiscardedOf(set_id) == Range(DictGet(DictGet(config, set_id, <<>>), "discarded", <<>>))

\* the configuration without the discard list of one set
Undiscarded(set_id) == [config EXCEPT ![set_id].discarded = <<>>]

KnownSensors ==
    UNION {Range(DictGet(config[set_id], "sensors", <<>>)) : set_id \in DOMAIN config}

\* C3: whenever a root (reference set) exists, the table of calibrate_tree
\* and the table of calculate_all_offsets hold a row for every sensor of
\* every set of the configuration.
C3_EverySensorHasRow ==
    /\ (result.op = "calibrate_tree" /\ get_root(tree) # None) =>
          \A sensor \in KnownSensors : \E row \in Rows(result.value) : row.Sensor = sensor
    /\ (result.op = "calculate_all_offsets" /\ HasReferenceSet) =>
          \A sensor \in KnownSensors : \E row \in Rows(result.value) : row.Sensor = sensor

\* the weights 1/error_i^2 of a list of paths
ClaimedWeights(ps) == [i \in 1..Len(ps) |-> QInv(ps[i].error2)]
\* sum(w_i * offset_i) / sum(w_i)
ClaimedOffset(ps, weights) ==
    QDiv(QSum([i \in 1..Len(ps) |-> QMul(weights[i], ps[i].offset)]), QSum(weights))
\* the square of 1 / sqrt(sum(w_i))
ClaimedError2(weights) == QInv(QSum(weights))

\* the paths (0.100, 0.010) and (0.120, 0.020)
ExamplePaths == << Path(Q(1, 10), Q(1, 10000), <<>>), Path(Q(3, 25), Q(1, 2500), <<>>) >>

NonZeroErrors(ps) == \A i \in 1..Len(ps) : ~QIsZero(ps[i].error2)

\* C4: in weighted_average_paths and in the weighted mean of
\* calculate_all_offsets_multi_path, two or more paths with non-zero errors
\* combine to sum(w_i * offset_i) / sum(w_i) with w_i = 1/error_i^2 and to
\* the error 1/sqrt(sum(w_i)); the paths (0.100, 0.010) and (0.120, 0.020)
\* combine to 0.104 and 1/sqrt(12500).
C4_WeightedCombination ==
    (/\ result.op \in {"weighted_average_paths", "multi_path_weighted"}
     /\ Len(paths) >= 2
     /\ NonZeroErrors(paths)) =>
        /\ QEq(result.value.offset, ClaimedOffset(paths, ClaimedWeights(paths)))
        /\ QEq(result.value.error2, ClaimedError2(ClaimedWeights(paths)))
        /\ paths = ExamplePaths =>
              /\ QEq(result.value.offset, Q(104, 1000))
              /\ QEq(result.value.error2, Q(1, 12500))

\* a finite number equal to the rational q, in either representation
SameNumber(x, q) ==
    IF "k" \in DOMAIN x THEN IsFinite(x) /\ QEq(x.v, q) ELSE QEq(x, q)

\* C5: when exactly one valid path exists, the output of the combiner
\* (weighted_average_paths, step 5 of compute_weighted_offset_all_paths) is
\* that path's own offset and error, also when the path's error is 0.
C5_SinglePathPassthrough ==
    (/\ result.op \in {"weighted_average_paths", "compute_weighted_offset_all_paths"}
     /\ Len(paths) = 1) =>
        /\ SameNumber(result.value.offset, paths[1].offset)
        /\ SameNumber(result.value.error2, paths[1].error2)

\* the result of a combiner is a finite number, in either representation
FiniteNumber(x) == IF "k" \in DOMAIN x THEN IsFinite(x) ELSE x.d # <<>>

\* C10: when two or more paths are combined and at least one has the error
\* exactly 0, the combiner (weighted_average_paths, step 5 of
\* compute_weighted_offset_all_paths, the weighted mean of
\* calculate_all_offsets_multi_path) returns a finite offset and a finite
\* error: it neither divides by zero nor raises.
C10_ZeroErrorEpsilon ==
    (/\ result.op \in {"weighted_average_paths", "compute_weighted_offset_all_paths",
                       "multi_path_weighted"}
     /\ Len(paths) >= 2
     /\ ~NonZeroErrors(paths)) =>
        /\ FiniteNumber(result.value.offset)
        /\ FiniteNumber(result.value.error2)

\* the measurements of a set
CalibSetOf(set_id) ==
    calibsets[CHOOSE i \in 1..Len(calibsets) : calibsets[i].set_number = set_id]
\* the data of the set is loaded
Loaded(set_id) == \E i \in 1..Len(calibsets) : calibsets[i].set_number = set_id
\* the set has an offset and an error for the sensor
Measured(set_id, a) ==
    /\ Loaded(set_id)
    /\ a \in DOMAIN CalibSetOf(set_id).mean_offsets
    /\ a \in DOMAIN CalibSetOf(set_id).std_offsets
\* the intra-set lookup (a, b) resolves to a defined offset and error
HopDefined(set_id, a, b) == Measured(set_id, a) /\ Measured(set_id, b)
SetsOfRound(round) == {set_id \in DOMAIN config : DictGet(config[set_id], "round", 0) = round}
SensorsOf(set_id) == Range(config[set_id].sensors)
BridgesOf(set_id) == Range(config[set_id].raised)
AllSensors == UNION {SensorsOf(set_id) : set_id \in DOMAIN config}

\* the combinations of usable bridge choices for a sensor of a round-1 set:
\* a bridge b1 of its set other than the sensor, a round-2 set s2 that
\* contains b1, a bridge b2 of s2 other than b1, a round-3 set s3 that
\* contains b2, every lookup on the way being defined
BridgeChoices(sensor, set_r1) ==
    {c \in AllSensors \X SetsOfRound(2) \X AllSensors \X SetsOfRound(3) :
        LET b1 == c[1]
            s2 == c[2]
            b2 == c[3]
            s3 == c[4]
        IN  /\ b1 \in BridgesOf(set_r1) \ {sensor}
            /\ HopDefined(set_r1, sensor, b1)
            /\ b1 \in SensorsOf(s2)
            /\ b2 \in BridgesOf(s2) \ {b1}
            /\ HopDefined(s2, b1, b2)
            /\ b2 \in SensorsOf(s3)
            /\ Loaded(s3)
            /\ b2 = CalibSetOf(s3).reference_id
                  \/ HopDefined(s3, b2, CalibSetOf(s3).reference_id)}

\* every table has an error wherever it has an offset
CompleteTables ==
    \A i \in 1..Len(calibsets) :
        DOMAIN calibsets[i].mean_offsets = DOMAIN calibsets[i].std_offsets

\* C6: the path enumerator (find_all_paths_to_reference,
\* Tree._explore_all_paths) returns one path for every combination of
\* usable bridge choices of the sensor, not only those through the first
\* next-round set that matches.  Stated for a sensor that is not discarded,
\* in a set none of whose bridges is discarded, over complete tables.
C6_EveryCombination ==
    (/\ result.op \in {"find_all_paths_to_reference", "explore_all_paths"}
     /\ CompleteTables
     /\ Range(config[result.args[2]].discarded)
            \cap (BridgesOf(result.args[2]) \cup {result.args[1]}) = {}) =>
        Len(result.value) = Cardinality(BridgeChoices(result.args[1], result.args[2]))

\* the bridging hops of a path explored for a sensor: sensor -> bridge of
\* round 1 in the sensor's set, bridge of round 1 -> bridge of round 2 in
\* the round-2 set
BridgingHops(sensor, path) ==
    { <<sensor, path.path_details[1][2]>>,
      <<path.path_details[1][2], path.path_details[2][2]>> }

\* C7: no path enumerated by find_all_paths_to_reference or by
\* Tree._explore_all_paths has a bridging hop from a sensor to itself: the
\* bridge chosen in a set is never the sensor being chained.
C7_NoSelfHop ==
    result.op \in {"find_all_paths_to_reference", "explore_all_paths"} =>
        \A i \in 1..Len(result.value) :
            \A hop \in BridgingHops(result.args[1], result.value[i]) : hop[1] # hop[2]

\* the hops of a path explored for a sensor, as <<set, from, to>>
HopsOf(sensor, path) ==
    { <<path.path_details[1][1], sensor, path.path_details[1][2]>>,
      <<path.path_details[2][1], path.path_details[1][2], path.path_details[2][2]>>,
      <<path.path_details[3][1], path.path_details[2][2], path.path_details[3][2]>> }

\* the error of the hop is defined in the tables of its set
ErrorDefined(hop) ==
    \/ hop[2] = hop[3]
    \/ /\ hop[2] \in DOMAIN CalibSetOf(hop[1]).std_offsets
       /\ hop[3] \in DOMAIN CalibSetOf(hop[1]).std_offsets

LookupsAlong(sensor_i, sensor_j, path) ==
    UNION {LET a == path[k]
               b == path[k + 1]
               sensor_bridge == network.graph[{a, b}][1]
           IN  (IF sensor_i # sensor_bridge THEN {<<a, sensor_i, sensor_bridge>>} ELSE {})
               \cup (IF sensor_bridge # sensor_j THEN {<<b, sensor_bridge, sensor_j>>} ELSE {})
           : k \in 1..(Len(path) - 1)}

\* C9: a missing entry of a set's offset or error table is never used as
\* the value 0: when compute_offset_between returns the offset between two
\* sensors of different sets, every entry it adds up exists in the table of
\* the set it is read from.
C9_MissingEntryNeverZero ==
    (/\ result.op = "compute_offset_between"
     /\ result.value.raised = ""
     /\ result.args[3] # <<>>) =>
        \A lookup \in LookupsAlong(result.args[1], result.args[2], result.args[3]) :
            /\ <<lookup[2], lookup[3]>> \in DOMAIN network.sets[lookup[1]].calibration_constants
            /\ <<lookup[2], lookup[3]>> \in DOMAIN network.sets[lookup[1]].calibration_errors

\* the offset of the hop <<set, from, to>> in the tables of its set: the
\* difference of the two mean offsets, 0 for a sensor to itself
HopOffset(hop) ==
    IF hop[2] = hop[3] THEN QZero
    ELSE QSub(CalibSetOf(hop[1]).mean_offsets[hop[2]], CalibSetOf(hop[1]).mean_offsets[hop[3]])
\* the square of the error of the hop: the sum of the two variances
HopError2(hop) ==
    IF hop[2] = hop[3] THEN QZero
    ELSE QAdd(CalibSetOf(hop[1]).std_offsets[hop[2]], CalibSetOf(hop[1]).std_offsets[hop[3]])
\* the hop has an offset and an error in the tables of its set
HopMeasured(hop) == hop[2] = hop[3] \/ HopDefined(hop[1], hop[2], hop[3])

\* the hops of a path of sets between two sensors of the network, as
\* <<set, from, to>>: in each set from the sensor it was entered by (the
\* bridge of the edge before, sensor_i in the first set) to the sensor it is
\* left by (the bridge of the edge after, sensor_j in the last set)
HopsAlong(sensor_i, sensor_j, path) ==
    LET Bridge(k) == network.graph[{path[k], path[k + 1]}][1]
    IN  [k \in 1..Len(path) |->
            <<path[k],
              IF k = 1 THEN sensor_i ELSE Bridge(k - 1),
              IF k = Len(path) THEN sensor_j ELSE Bridge(k)>>]

\* C11: the total offset of a valid path is the signed sum of the offsets
\* of its hops and its total error the square root of the sum of the squares
\* of their errors, over all hops of the path: for every path returned by
\* find_all_paths_to_reference and Tree._explore_all_paths, and for the path
\* of sets compute_offset_between follows between two sensors of different
\* sets, every hop being measured.
C11_PathTotals ==
    /\ result.op \in {"find_all_paths_to_reference", "explore_all_paths"} =>
          \A i \in 1..Len(result.value) :
              LET hops == HopsOf(result.args[1], result.value[i])
              IN  (\A hop \in hops : HopMeasured(hop)) =>
                      /\ QEq(result.value[i].offset,
                             QSum([k \in 1..3 |->
                                 HopOffset(CHOOSE hop \in hops :
                                     hop[1] = result.value[i].path_details[k][1])]))
                      /\ QEq(result.value[i].error2,
                             QSum([k \in 1..3 |->
                                 HopError2(CHOOSE hop \in hops :
                                     hop[1] = result.value[i].path_details[k][1])]))
    /\ (/\ result.op = "compute_offset_between"
        /\ result.value.raised = ""
        /\ result.args[3] # <<>>) =>
          LET hops == HopsAlong(result.args[1], result.args[2], result.args[3])
          IN  (\A k \in 1..Len(hops) : HopMeasured(hops[k])) =>
                  /\ result.value.offset # NaN
                  /\ QEq(result.value.offset, QSum([k \in 1..Len(hops) |-> HopOffset(hops[k])]))
                  /\ result.value.error2 # NaN
                  /\ QEq(result.value.error2, QSum([k \in 1..Len(hops) |-> HopError2(hops[k])]))

\* the root set and the absolute reference sensor of the hierarchy a path
\* was enumerated in, as <<set, sensor>>
RootOf(op) ==
    IF op = "find_all_paths_to_reference"
    THEN <<get_root(tree).set_number, get_root(tree).calibset.reference_id>>
    ELSE <<get_reference_set(legacy),
           get_reference_info(get_reference_set(legacy), config)[1]>>

\* the final hop of a path in the root set: from the last bridge used to
\* the absolute reference sensor
FinalHop(path, root) == <<root[1], path.path_details[2][2], root[2]>>

\* the two bridging hops of a path explored for a sensor, in order
FirstHops(sensor, path) ==
    << <<path.path_details[1][1], sensor, path.path_details[1][2]>>,
       <<path.path_details[2][1], path.path_details[1][2], path.path_details[2][2]>> >>

\* C12: every path enumerated by find_all_paths_to_reference and by
\* Tree._explore_all_paths ends in the root set at the absolute reference
\* sensor, and its final hop contributes the offset and the error the root
\* set has between the last bridge used and the reference sensor, 0 and 0
\* when the last bridge is the reference sensor.
C12_FinalHopInRoot ==
    result.op \in {"find_all_paths_to_reference", "explore_all_paths"} =>
        \A i \in 1..Len(result.value) :
            LET path == result.value[i]
                root == RootOf(result.op)
                first == FirstHops(result.args[1], path)
            IN  /\ path.path_details[3] = root
                /\ HopMeasured(FinalHop(path, root))
                /\ (HopMeasured(first[1]) /\ HopMeasured(first[2])) =>
                      /\ QEq(path.offset,
                             QSum(<<HopOffset(first[1]), HopOffset(first[2]),
                                    HopOffset(FinalHop(path, root))>>))
                      /\ QEq(path.error2,
                             QSum(<<HopError2(first[1]), HopError2(first[2]),
                                    HopError2(FinalHop(path, root))>>))

\* the rows of a table for one sensor of one set
RowsFor(table, sensor, set_id) ==
    {i \in 1..Len(table) : table[i].Sensor = sensor /\ table[i].Set = set_id}

\* the number of paths Tree.calculate_all_offsets_multi_path enumerated for
\* a sensor of a round-1 set of the legacy tree
EnumeratedFor(sensor, set_id) ==
    LET set_raised == DictGet(DictGet(config, set_id, <<>>), "raised", <<>>)
        reference_set == get_reference_set(legacy)
        explored == ExploredFor(sensor, set_id, set_raised)
    IN  IF explored = <<>> THEN 0
        ELSE Len(explore_all_paths(legacy, config, explored[1], set_id, set_raised,
                                   get_reference_info(reference_set, config)[1],
                                   reference_set))

\* C13: a sensor that is neither discarded nor the reference has the status
\* Calculado with N_Paths equal to the number of valid paths enumerated for
\* it when that number is at least 1, and a no-connection status with 0
\* paths when it is 0: in the table of calibrate_tree for every sensor of a
\* round-1 entry, in the table of calculate_all_offsets_multi_path for
\* every row.
C13_StatusFromPathCount ==
    /\ (result.op = "calibrate_tree" /\ get_root(tree) # None) =>
          \A e \in 1..Len(tree.entries) :
              tree.entries[e].round = 1 =>
                  \A sensor \in Range(tree.entries[e].sensors)
                                   \ Range(tree.entries[e].discarded_sensors) :
                      LET n == Len(find_all_paths_to_reference(sensor, tree.entries[e], tree))
                          rows == RowsFor(result.value, sensor, tree.entries[e].set_number)
                      IN  /\ rows # {}
                          /\ \A i \in rows :
                                /\ result.value[i].N_Paths = n
                                /\ result.value[i].Status =
                                      IF n >= 1 THEN "Calculado" ELSE "Sin conexion"
    /\ result.op = "calculate_all_offsets_multi_path" =>
          \A row \in Rows(result.value) :
              row.Sensor \notin DiscardedOf(row.Set) =>
                  /\ row.N_Caminos = EnumeratedFor(row.Sensor, row.Set)
                  /\ row.N_Caminos >= 1 => row.Status = "Calculado"
                  /\ row.N_Caminos = 0 =>
                        row.Status \in {"Sin conexion", "Sin caminos validos"}

\* calibrate_tree reported a sensor computed from several paths next to a
\* sensor without any path
C13_Witness ==
    /\ result.op = "calibrate_tree"
    /\ \E row \in Rows(result.value) :
          /\ row.Status = "Calculado"
          /\ row.N_Paths >= 2
          /\ row.N_Paths = Len(find_all_paths_to_reference(row.Sensor,
                                   get_entry(tree, row.Set), tree))
    /\ \E row \in Rows(result.value) :
          /\ row.Status = "Sin conexion"
          /\ find_all_paths_to_reference(row.Sensor, get_entry(tree, row.Set), tree) = <<>>

\* the links of the tree of the TreeEntry pipeline, as <<set, set>>
TreeLinks ==
    UNION {{<<tree.entries[i].set_number, other>> :
               other \in Range(tree.entries[i].children_entries)
                         \cup Range(tree.entries[i].parent_entries)} :
           i \in 1..Len(tree.entries)}

\* two rounds that differ by exactly 1
Adjacent(round_a, round_b) == round_a = round_b + 1 \/ round_b = round_a + 1

\* C14: every edge of the built hierarchy joins two distinct sets whose
\* rounds differ by exactly 1: every parent or child link of the tree that
\* create_tree_from_calibsets builds, on the rounds of the two entries, and
\* every edge of the graph of the CalibrationNetwork, on the rounds
\* _get_set_round gives; no edge joins a set to itself or skips a round.
C14_EdgesJoinAdjacentRounds ==
    /\ \A link \in TreeLinks :
          /\ link[1] # link[2]
          /\ get_entry(tree, link[2]) # None
          /\ Adjacent(get_entry(tree, link[1]).round, get_entry(tree, link[2]).round)
    /\ \A edge \in DOMAIN network.graph :
          /\ Cardinality(edge) = 2
          /\ \E a, b \in edge : get_set_round(a, config) + 1 = get_set_round(b, config)

\* the tree is built with links between all three rounds, and the graph of
\* the network has edges between all three rounds
C14_Witness ==
    /\ result.op = "create_tree_from_calibsets"
    /\ \E link \in TreeLinks : get_entry(tree, link[1]).round = 1
    /\ \E link \in TreeLinks : get_entry(tree, link[1]).round = 3
    /\ \E edge \in DOMAIN network.graph : \E a \in edge : get_set_round(a, config) = 1
    /\ \E edge \in DOMAIN network.graph : \E a \in edge : get_set_round(a, config) = 3

\* the sets a path goes through, from the home set of the sensor upwards
SetsAlong(op, value) ==
    IF op = "calculate_offset_between_sets" THEN value.path
    ELSE [k \in 1..Len(value.path_details) |-> value.path_details[k][1]]

\* the highest round of the configuration
MaxRound ==
    CHOOSE r \in {get_set_round(s, config) : s \in DOMAIN config} :
        \A s \in DOMAIN config : get_set_round(s, config) <= r

\* the path of sets starts in the home set, climbs one round at every hop
\* and has max_round - home_round hops
ClimbsByOne(sets, home_set) ==
    /\ sets[1] = home_set
    /\ \A k \in 1..(Len(sets) - 1) :
          get_set_round(sets[k + 1], config) = get_set_round(sets[k], config) + 1
    /\ Len(sets) - 1 = MaxRound - get_set_round(home_set, config)

\* C15: along every path used for a sensor the round increases by exactly
\* 1 at each set-to-set hop from the home set of the sensor to the root
\* set, so that no round is visited twice and the number of set-to-set hops
\* is max_round - home_round: for the paths of find_all_paths_to_reference
\* and Tree._explore_all_paths and for the path of sets that
\* Tree.calculate_offset_between_sets follows (Tree._calculate_offset_chain).
C15_RoundsClimbByOne ==
    /\ result.op \in {"find_all_paths_to_reference", "explore_all_paths"} =>
          \A i \in 1..Len(result.value) :
              ClimbsByOne(SetsAlong(result.op, result.value[i]), result.args[2])
    /\ (result.op = "calculate_offset_between_sets" /\ result.value.path # <<>>) =>
          ClimbsByOne(SetsAlong(result.op, result.value), result.args[2])

\* the sets whose data is loaded
LoadedSets == {calibsets[i].set_number : i \in 1..Len(calibsets)}

\* the loaded sets outside the connected component of the root set, in the
\* graph of the bridges between sets of consecutive rounds
Disconnected(root_id) ==
    LoadedSets \ node_connected_component(
                     build_graph_edges(SetsDictOf(calibsets, config), config), {root_id})

\* the data without the set set_id
WithoutSet(set_id) == SelectSeq(calibsets, LAMBDA cs : cs.set_number # set_id)

\* the rows of a table for the sensors outside the set set_id
RowsOutside(table, set_id) == SelectSeq(table, LAMBDA row : row.Set # set_id)

\* C16: removing a set outside the connected component of the root set
\* changes no row of the table calibrate_tree returns for the sensors of the
\* other sets, and leaves the sets and the edges the network keeps as they
\* are: the data of a disconnected set is used for no other sensor.
C16_PrunedSetFrame ==
    /\ (result.op = "calibrate_tree" /\ get_root(tree) # None) =>
          \A set_id \in Disconnected(get_root(tree).set_number) :
              RowsOutside(calibrate_tree(create_tree_from_calibsets(
                              WithoutSet(set_id), config, <<get_root(tree).set_number>>)),
                          set_id)
                  = RowsOutside(result.value, set_id)
    /\ find_reference_set(SetsDictOf(calibsets, config), config) # <<>> =>
          \A set_id \in LoadedSets \ DOMAIN network.sets :
              CalibrationNetwork(SetsDictOf(WithoutSet(set_id), config), config) = network

\* the sensors of a set of the configuration that are not discarded
KeptSensors(set_id) ==
    Range(DictGet(DictGet(config, set_id, <<>>), "sensors", <<>>)) \ DiscardedOf(set_id)

\* a table holds for every kept sensor of every loaded set outside the
\* connected component of the root a row that says the sensor has no
\* connection
PrunedSensorsListed(table, root_id) ==
    \A set_id \in Disconnected(root_id) : \A sensor \in KeptSensors(set_id) :
        \E row \in Rows(table) :
            /\ row.Sensor = sensor
            /\ row.Set = set_id
            /\ row.Status \in {"Sin conexion", "Sin caminos validos"}

\* C17: the tables of calibrate_tree, of Tree.calculate_all_offsets and of
\* Tree.calculate_all_offsets_multi_path hold, for every sensor of a set
\* that is not connected to the root set, a row with the status of a sensor
\* without connection.
C17_PrunedSensorsNoConnection ==
    /\ (result.op = "calibrate_tree" /\ get_root(tree) # None) =>
          PrunedSensorsListed(result.value, get_root(tree).set_number)
    /\ (/\ result.op \in {"calculate_all_offsets", "calculate_all_offsets_multi_path"}
        /\ HasReferenceSet) =>
          PrunedSensorsListed(result.value, get_reference_set(legacy))

\* the outcome of a call that ends with the exception NoReferenceError
\* instead of returning; a call that returns has the returned value as
\* outcome (None for create_tree_from_calibsets, whose tree is the variable
\* tree, and the sequence of rows for calibrate_tree)
NoReferenceError == [raised |-> "NoReferenceError"]

\* C18: when no root is identified (create_tree_from_calibsets leaves the
\* tree without root), neither create_tree_from_calibsets nor calibrate_tree
\* returns: the call ends with the fatal NoReferenceError, and no table, not
\* even an empty one, is handed back.
C18_NoRootIsFatal ==
    (/\ result.op \in {"create_tree_from_calibsets", "calibrate_tree"}
     /\ get_root(tree) = None) =>
        result.value = NoReferenceError

\* the set numbers of the entries of the tree that hold the maximum round
TopEntries ==
    {tree.entries[i].set_number : i \in
        {i \in 1..Len(tree.entries) :
            \A j \in 1..Len(tree.entries) : tree.entries[j].round <= tree.entries[i].round}}

\* C19: when more than one set holds the maximum round number,
\* create_tree_from_calibsets does not return a tree: the construction ends
\* with the fatal NoReferenceError, and CalibrationNetwork keeps no
\* reference set either.
C19_AmbiguousRootIsFatal ==
    (/\ result.op = "create_tree_from_calibsets"
     /\ Cardinality(TopEntries) > 1) =>
        /\ result.value = NoReferenceError
        /\ find_reference_set(SetsDictOf(calibsets, config), config) = <<>>

\* the loaded sets whose configuration holds no round
RoundlessSets == {set_id \in LoadedSets \cap DOMAIN config : "round" \notin DOMAIN config[set_id]}

\* C20: a set whose configuration holds no round is left out of every
\* hierarchy: the network gives it no edge, the tree holds no entry for it,
\* the legacy tree files it under no round (it gets no default round), and
\* no sensor of it is calibrated through a path.
C20_RoundlessSetExcluded ==
    \A set_id \in RoundlessSets :
        /\ \A edge \in DOMAIN network.graph : set_id \notin edge
        /\ \A i \in 1..Len(tree.entries) : tree.entries[i].set_number # set_id
        /\ \A round \in DOMAIN legacy.sets_by_round :
              ~InSeq(set_id, legacy.sets_by_round[round])
        /\ result.op = "calibrate_tree" =>
              \A row \in Rows(result.value) : row.Set = set_id => row.Status # "Calculado"

\* the bridge choices of an enumerated path: the bridge of round 1, the
\* round-2 set, the bridge of round 2 and the round-3 set
ChoiceOf(path) ==
    <<path.path_details[1][2], path.path_details[2][1],
      path.path_details[2][2], path.path_details[3][1]>>

\* C21: an undefined intra-set lookup removes the branch that contains it
\* and no other: the paths returned by find_all_paths_to_reference and by
\* Tree._explore_all_paths for a sensor are exactly the branches all of
\* whose lookups have an offset and an error.  Stated for a sensor that is
\* not discarded, in a set none of whose bridges is discarded.
C21_OnlyUndefinedBranchesDropped ==
    (/\ result.op \in {"find_all_paths_to_reference", "explore_all_paths"}
     /\ Range(config[result.args[2]].discarded)
            \cap (BridgesOf(result.args[2]) \cup {result.args[1]}) = {}) =>
        {ChoiceOf(result.value[i]) : i \in 1..Len(result.value)}
            = BridgeChoices(result.args[1], result.args[2])

\* the rows of a table are in strictly ascending order of (Set, Sensor):
\* the order of the rows follows from their content alone
StrictlySorted(table) ==
    \A i \in 1..(Len(table) - 1) :
        \/ table[i].Set < table[i + 1].Set
        \/ (table[i].Set = table[i + 1].Set /\ table[i].Sensor < table[i + 1].Sensor)

Reversed(s) == [i \in 1..Len(s) |-> s[Len(s) + 1 - i]]

\* the configuration with the bridges of every set listed in the opposite
\* order
BridgesReversed(cfg) ==
    [set_id \in DOMAIN cfg |->
        IF "raised" \in DOMAIN cfg[set_id]
        THEN [cfg[set_id] EXCEPT !.raised = Reversed(@)]
        ELSE cfg[set_id]]

\* two entries of a table are the same: both undefined, or equal numbers
SameEntry(x, y) ==
    IF x \in {NaN, None} \/ y \in {NaN, None} THEN x = y ELSE QEq(x, y)

\* two tables give every sensor the same status, constant and error
SameConstants(t1, t2) ==
    /\ Len(t1) = Len(t2)
    /\ \A i \in 1..Len(t1) :
          /\ t1[i].Sensor = t2[i].Sensor
          /\ t1[i].Set = t2[i].Set
          /\ t1[i].Status = t2[i].Status
          /\ SameEntry(t1[i].Constante_Calibracion_K, t2[i].Constante_Calibracion_K)
          /\ SameEntry(t1[i].Error2_K, t2[i].Error2_K)

\* C23: the constant and the error of a sensor do not depend on the order
\* of its bridges or of its paths: calibrate_tree and
\* Tree.calculate_all_offsets give the same constants when every set lists
\* its bridges in the opposite order, and weighted_average_paths gives the
\* same result for the paths in the opposite order.
C23_OrderIndependent ==
    /\ (result.op = "calibrate_tree" /\ get_root(tree) # None) =>
          SameConstants(result.value,
              calibrate_tree(create_tree_from_calibsets(
                  calibsets, BridgesReversed(config), <<get_root(tree).set_number>>)))
    /\ result.op = "calculate_all_offsets" =>
          SameConstants(result.value,
              calculate_all_offsets(
                  LegacyTree(SetsDictOf(calibsets, BridgesReversed(config)),
                             BridgesReversed(config)),
                  BridgesReversed(config)))
    /\ result.op = "weighted_average_paths" =>
          /\ SameEntry(result.value.offset, weighted_average_paths(Reversed(paths)).offset)
          /\ SameEntry(result.value.error2, weighted_average_paths(Reversed(paths)).error2)

\* the chains of a bridge b of a round-1 set up to a round-3 set, as the two
\* hops <<set, from, to>> after b: in a round-2 set that contains b to a
\* bridge of that set other than b, and in a round-3 set that contains that
\* bridge to its reference sensor; every lookup is defined
ChainsOfBridge(b) ==
    {c \in (SetsOfRound(2) \X {b} \X AllSensors) \X (SetsOfRound(3) \X AllSensors \X AllSensors) :
        LET s2 == c[1][1]
            b2 == c[1][3]
            s3 == c[2][1]
        IN  /\ b \in SensorsOf(s2)
            /\ b2 \in BridgesOf(s2) \ {b}
            /\ HopDefined(s2, b, b2)
            /\ b2 \in SensorsOf(s3)
            /\ Loaded(s3)
            /\ c[2][2] = b2
            /\ c[2][3] = CalibSetOf(s3).reference_id
            /\ HopMeasured(c[2])}

\* the offset and the error of a bridge sensor of a round-1 set are those of
\* its hop to a sibling bridge of the set followed by a chain of the sibling
Stacked(sensor, set_r1, offset, error2) ==
    \E b \in BridgesOf(set_r1) \ {sensor} :
        /\ HopDefined(set_r1, sensor, b)
        /\ \E c \in ChainsOfBridge(b) :
              /\ QEq(offset, QSum(<<HopOffset(<<set_r1, sensor, b>>),
                                    HopOffset(c[1]), HopOffset(c[2])>>))
              /\ QEq(error2, QSum(<<HopError2(<<set_r1, sensor, b>>),
                                    HopError2(c[1]), HopError2(c[2])>>))

\* C24: for a sensor of a round-1 set that is itself a bridge, every path of
\* find_all_paths_to_reference and the constant Tree.calculate_all_offsets
\* computes are the offset of the sensor to a sibling bridge of its set plus
\* the chain of that sibling to the root, and the error is the quadrature
\* sum of the error of the sibling hop and the errors of the chain.  Stated
\* over complete tables.
C24_BridgeSensorStacked ==
    /\ (/\ result.op = "find_all_paths_to_reference"
        /\ CompleteTables
        /\ result.args[1] \in BridgesOf(result.args[2])) =>
          \A i \in 1..Len(result.value) :
              Stacked(result.args[1], result.args[2],
                      result.value[i].offset, result.value[i].error2)
    /\ (result.op = "calculate_all_offsets" /\ CompleteTables) =>
          \A row \in Rows(result.value) :
              (/\ row.Status = "Calculado"
               /\ row.Set \in SetsOfRound(1)
               /\ row.Sensor \in BridgesOf(row.Set)) =>
                  Stacked(row.Sensor, row.Set, row.Constante_Calibracion_K, row.Error2_K)

\* a matrix of offsets is antisymmetric and a matrix of errors symmetric
\* wherever an entry is defined
Antisymmetric(offset_table, error_table, sensors) ==
    \A a \in sensors, b \in sensors :
        /\ (<<a, b>> \in DOMAIN offset_table /\ offset_table[<<a, b>>] # NaN) =>
              /\ <<b, a>> \in DOMAIN offset_table
              /\ offset_table[<<b, a>>] # NaN
              /\ QEq(offset_table[<<a, b>>], QNeg(offset_table[<<b, a>>]))
        /\ (<<a, b>> \in DOMAIN error_table /\ error_table[<<a, b>>] # NaN) =>
              /\ <<b, a>> \in DOMAIN error_table
              /\ error_table[<<b, a>>] # NaN
              /\ QEq(error_table[<<a, b>>], error_table[<<b, a>>])

\* the offsets a TreeEntry holds between two of its raised sensors mirror
\* each other
RaisedPairsMirror(entry) ==
    \A a \in DOMAIN entry.offsets_to_raised, b \in DOMAIN entry.offsets_to_raised :
        (a \in DOMAIN entry.offsets_to_raised[b] /\ b \in DOMAIN entry.offsets_to_raised[a]) =>
            /\ QEq(entry.offsets_to_raised[b][a].offset,
                   QNeg(entry.offsets_to_raised[a][b].offset))
            /\ QEq(entry.offsets_to_raised[b][a].error2,
                   entry.offsets_to_raised[a][b].error2)

ConnectedTo(set_a) == node_connected_component(network.graph, {set_a})

\* C26: for two different sets a and b of the network that are connected in
\* the graph, find_path_between_sets(a, b) returns a list of at least two
\* sets that starts with a and ends with b, and every two consecutive sets
\* of the list are joined by an edge of the graph.
C26_PathBetweenConnectedSets ==
    (/\ result.op = "find_path_between_sets"
     /\ result.args[1] # result.args[2]
     /\ result.args[2] \in ConnectedTo(result.args[1])) =>
        LET path == result.value
        IN  /\ Len(path) >= 2
            /\ path[1] = result.args[1]
            /\ path[Len(path)] = result.args[2]
            /\ \A k \in 1..(Len(path) - 1) : {path[k], path[k + 1]} \in DOMAIN network.graph

\* a path between two connected sets that are not joined by an edge
C26_Witness ==
    /\ result.op = "find_path_between_sets"
    /\ result.args[2] \in ConnectedTo(result.args[1])
    /\ {result.args[1], result.args[2]} \notin DOMAIN network.graph
    /\ Len(result.value) >= 3

\* the bridges of an enumerated path, each with the two sets its hop joins
BridgeHops(path) ==
    { <<path.path_details[1][2], path.path_details[1][1], path.path_details[2][1]>>,
      <<path.path_details[2][2], path.path_details[2][1], path.path_details[3][1]>> }

\* the sensors with a row in a table that says they have no valid path
Unconnected(table) == {<<row.Sensor, row.Set>> : row \in {r \in Rows(table) : r.N_Paths = 0}}

\* C27: no path returned by find_all_paths_to_reference or by
\* Tree._explore_all_paths uses as a bridge a sensor that is in the discard
\* list of one of the two sets the hop joins, and a sensor of a round-1 set
\* all of whose raised sensors are discarded in that set has a row with 0
\* paths in the table of calibrate_tree.
C27_NoDiscardedBridge ==
    /\ result.op \in {"find_all_paths_to_reference", "explore_all_paths"} =>
          \A i \in 1..Len(result.value) : \A hop \in BridgeHops(result.value[i]) :
              hop[1] \notin DiscardedOf(hop[2]) \cup DiscardedOf(hop[3])
    /\ result.op = "calibrate_tree" /\ result.value # <<>> =>
          \A set_id \in DOMAIN config : \A sensor \in Range(config[set_id].sensors) :
              (/\ config[set_id].round = 1
               /\ \E row \in Rows(result.value) : row.Set = set_id
               /\ Range(config[set_id].raised) \ {sensor} # {}
               /\ Range(config[set_id].raised) \ {sensor} \subseteq DiscardedOf(set_id))
                  => <<sensor, set_id>> \in Unconnected(result.value)

\* C28: after the hierarchy is built and the engine has run, the store of
\* Set objects, the dict handed to CalibrationNetwork and kept by it as
\* self.sets, holds the sets it held before, with the same tables: the sets
\* computed from the CalibSets and the configuration; and no operation
\* changes the CalibSets.
C28_StoreUnchanged ==
    /\ network.sets = SetsDictOf(calibsets, config)
    /\ legacy.sets = SetsDictOf(calibsets, config)

\* two numbers of a table are the same: both NaN, or equal
SameOrNaN(x, y) == IF x = NaN \/ y = NaN THEN x = y ELSE QEq(x, y)

\* the sensors of the reference set of the network other than the reference
\* sensor
RootSensors ==
    LET ref_set == network_get_reference_set(network, config)
        ref_sensor == top_reference_sensor(network, config, ref_set[1])
    IN  IF ref_set = <<>> \/ ref_sensor = <<>> THEN {}
        ELSE IndexOf(network.sets[ref_set[1]]) \ {ref_sensor[1]}

\* C29: every final constant is relative to the absolute reference sensor: a
\* sensor of the root set other than the reference sensor gets the offset
\* of the root set's tables from that sensor to the reference sensor, with
\* the error of that entry.  compute_offset_to_top_reference returns it for
\* such a sensor, and the table of calibrate_tree has a row with it.
C29_RootSensorsRelativeToReference ==
    /\ (result.op = "compute_offset_to_top_reference" /\ result.args[1] \in RootSensors) =>
          LET ref_set == network_get_reference_set(network, config)[1]
              ref_sensor == top_reference_sensor(network, config, ref_set)[1]
              root == network.sets[ref_set]
          IN  /\ result.value.raised = ""
              /\ SameOrNaN(result.value.offset,
                           root.calibration_constants[<<result.args[1], ref_sensor>>])
              /\ SameOrNaN(result.value.error2,
                           root.calibration_errors[<<result.args[1], ref_sensor>>])
    /\ (result.op = "calibrate_tree" /\ result.value # <<>>) =>
          LET root == get_root(tree)
          IN  \A sensor \in Range(root.sensors) \ {root.calibset.reference_id} :
                  (sensor \in DOMAIN root.calibset.mean_offsets
                   /\ sensor \in DOMAIN root.calibset.std_offsets) =>
                      \E row \in Rows(result.value) :
                          /\ row.Sensor = sensor
                          /\ SameOrNaN(row.Constante_Calibracion_K,
                                       root.calibset.mean_offsets[sensor])
                          /\ SameOrNaN(row.Error2_K, root.calibset.std_offsets[sensor])

\* the round of the set a climb starts from
StartRound(sensor_id) == get_set_round(find_sensor_set(network, sensor_id)[1], config)

\* a climb is in a set of the round it counts, as many rounds above its
\* start as it made iterations and not above the reference round; a climb
\* that returned made no more hops than that and the last one
ClimbWithinRounds ==
    /\ result.op = "climb" =>
          /\ result.value.current_round = result.value.start_round + result.value.iteration
          /\ get_set_round(result.value.current_set, config) = result.value.current_round
          /\ result.value.start_round = StartRound(result.args[1])
          /\ result.value.current_round <= result.value.ref_round
    /\ (result.op = "compute_offset_to_top_reference" /\ result.value.raised = ""
        /\ result.value.pasos # <<>>) =>
          Len(result.value.pasos) - 1
              <= get_set_round(network_get_reference_set(network, config)[1], config)
                 - StartRound(result.args[1])

\* an iteration that stays in the loop moves to a set exactly one round higher
ClimbsOneRound ==
    (result.op = "climb" /\ result'.op = "climb") =>
        /\ result'.value.iteration = result.value.iteration + 1
        /\ get_set_round(result'.value.current_set, config)
               = get_set_round(result.value.current_set, config) + 1

\* C30: every climb of compute_offset_to_top_reference terminates: each
\* iteration of its loop moves to a set exactly one round higher, so the loop
\* ends, at the reference round or with an error, after at most
\* ref_round - start_round iterations.
C30_ClimbTerminates ==
    /\ []ClimbWithinRounds
    /\ [][ClimbsOneRound]_vars
    /\ (result.op = "climb") ~> (result.op = "compute_offset_to_top_reference")

\* a climb over two rounds has returned: two iterations and the last hop
C30_Witness ==
    /\ result.op = "compute_offset_to_top_reference"
    /\ result.value.raised = ""
    /\ Len(result.value.pasos) = 3



=============================================================================
